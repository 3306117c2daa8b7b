---------------------------- MODULE WatchProofs ----------------------------
(***************************************************************************)
(* Clauses stay watched by their first two literals in Collect, reasons    *)
(* keep forcing and nothing is left to propagate, for any formula, store   *)
(* and number of collections.                                              *)
(***************************************************************************)
EXTENDS CollectProofs

-----------------------------------------------------------------------------
\* The invariant of propagation, beside that of the pointers.
FirstTwo(lits) == {lits[1], lits[2]}
Once(ws, c) == \E n \in DOMAIN ws : \A m \in DOMAIN ws : ws[m].clause = c <=> m = n
Never(ws, c) == \A n \in DOMAIN ws : ws[n].clause # c
Fits(ws, c, b) == IF b THEN Once(ws, c) ELSE Never(ws, c)

\* The clauses of C that are no garbage are watched by their first two literals, once each.
AllFit(w, m, C) ==
  \A c \in C : ~m[c].garbage =>
    \A l \in Lit : Fits(w[l], c, l \in FirstTwo(m[c].lits))

\* A watch of l has the size of its clause and another literal of it.
Blocks(ws, m, l) ==
  \A n \in DOMAIN ws :
    /\ ws[n].size = Len(m[ws[n].clause].lits)
    /\ ~m[ws[n].clause].garbage => ws[n].blit \in ToSet(m[ws[n].clause].lits) \ {l}
AllBlock(w, m) == \A l \in Lit : Blocks(w[l], m, l)

\* The level of place q of the trail is at most that of place p.
NotAbove(ctl, q, p) == \A j \in DOMAIN ctl : ctl[j] < q => ctl[j] < p

\* A watched literal that is false, at a place up to h, has a true literal beside it
\* that was assigned on no higher level.
Guarded(t, ctl, lits, h) ==
  \A i \in {1, 2} : \A p \in DOMAIN t :
    (p <= h /\ t[p] = -lits[i]) =>
      \E q \in DOMAIN t : t[q] \in ToSet(lits) /\ NotAbove(ctl, q, p)

Live(m, c) == ~m[c].garbage /\ Len(m[c].lits) >= 2
AllGuarded(t, ctl, m, h) == \A c \in Addr : Live(m, c) => Guarded(t, ctl, m[c].lits, h)

\* Up to here the watches were visited, a conflict leaves the last level open.
Visited(cf, ctl, p) == IF cf = 0 THEN p ELSE IF Len(ctl) = 0 THEN 0 ELSE ctl[Len(ctl)]

\* The reason of a literal above the root level forces it.
Forces(t, n, lits) ==
  t[n] \in ToSet(lits) /\ \A l \in ToSet(lits) \ {t[n]} : \E p \in 1 .. n : t[p] = -l
Forced(t, ctl, r, m) ==
  \A n \in DOMAIN t : (Len(ctl) > 0 /\ n > ctl[1] /\ r[Idx(t[n])] # 0) =>
    ~m[r[Idx(t[n])]].garbage /\ Forces(t, n, m[r[Idx(t[n])]].lits)

NoRepeats(m) == \A c \in Addr : IsInjective(m[c].lits)
LevelsSeen == Level > 0 => control[Level] <= propagated
Relocated == pc \in {"reasons", "delete"}

\* Of the steps of a collection: binary clauses are no garbage between two of them, none is
\* after sweeping, and a copy is what it was copied from until that one is deleted.
GarbageIsLong == pc = "search" => \A c \in K : mem[c].garbage => Len(mem[c].lits) > 2
NoneIsGarbage == pc = "unprotect" => \A c \in K : ~mem[c].garbage
CopiesAlike ==
  pc \in {"watches", "reasons", "delete"} =>
    \A c \in Staying : /\ ~mem[c].garbage /\ ~mem[Moved(c)].garbage
                       /\ mem[Moved(c)].lits = mem[c].lits

PInv ==
  /\ NoRepeats(mem) /\ LevelsSeen
  /\ pc # "search" => propagated = Len(trail)
  /\ Forced(trail, control, reason, mem)
  /\ AllGuarded(trail, control, mem, Visited(conflict, control, propagated))
  /\ AllFit(watches, mem, IF Relocated THEN NewStore ELSE K)
  /\ pc \notin {"protect", "mark", "copy", "watches"} => AllBlock(watches, mem)
  /\ GarbageIsLong /\ NoneIsGarbage /\ CopiesAlike

-----------------------------------------------------------------------------
\* Facts on sequences of watches.
LEMMA AppendFits ==
  ASSUME NEW ws \in Seq(WatchRecord), NEW w \in WatchRecord, NEW c
  PROVE  /\ Never(ws, c) /\ w.clause # c => Never(Append(ws, w), c)
         /\ Never(ws, c) /\ w.clause = c => Once(Append(ws, w), c)
         /\ Once(ws, c) /\ w.clause # c => Once(Append(ws, w), c)
<1> DEFINE N == Len(ws)
<1> DEFINE v == Append(ws, w)
<1>1. /\ DOMAIN ws = 1 .. N /\ N \in Nat /\ DOMAIN v = 1 .. N + 1
      /\ \A i \in 1 .. N : v[i] = ws[i]
      /\ v[N + 1] = w
  BY AppendProperties, LenProperties
<1>2. \A n \in 1 .. N + 1 : n \in 1 .. N \/ n = N + 1
  BY <1>1
<1>3. N + 1 \in 1 .. N + 1 /\ N + 1 \notin 1 .. N /\ \A n \in 1 .. N : n \in 1 .. N + 1
  BY <1>1
<1> HIDE DEF N, v
<1>4. Never(ws, c) /\ w.clause # c => Never(v, c)
  BY <1>1, <1>2 DEF Never
<1>5. ASSUME Never(ws, c), w.clause = c PROVE Once(v, c)
  <2>1. \A m \in 1 .. N + 1 : v[m].clause = c <=> m = N + 1
    BY <1>1, <1>2, <1>3, <1>5 DEF Never
  <2>2. N + 1 \in DOMAIN v /\ \A m \in DOMAIN v : v[m].clause = c <=> m = N + 1
    BY <1>1, <1>3, <2>1
  <2> QED
    BY ONLY <2>2 DEF Once
<1>6. ASSUME Once(ws, c), w.clause # c PROVE Once(v, c)
  <2>0. PICK n \in DOMAIN ws : \A m \in DOMAIN ws : ws[m].clause = c <=> m = n
    BY ONLY <1>6 DEF Once
  <2>1. n \in 1 .. N /\ \A m \in 1 .. N : ws[m].clause = c <=> m = n
    BY <1>1, <2>0
  <2>2. n \in 1 .. N + 1 /\ n # N + 1
    BY <1>3, <2>1
  <2>3. \A m \in 1 .. N + 1 : v[m].clause = c <=> m = n
    BY <1>1, <1>2, <1>6, <2>1, <2>2
  <2>4. n \in DOMAIN v /\ \A m \in DOMAIN v : v[m].clause = c <=> m = n
    BY <1>1, <2>2, <2>3
  <2> QED
    BY ONLY <2>4 DEF Once
<1> QED
  BY <1>4, <1>5, <1>6 DEF v

LEMMA AppendBlocks ==
  ASSUME NEW ws \in Seq(WatchRecord), NEW w \in WatchRecord, NEW m, NEW l, Blocks(ws, m, l),
         w.size = Len(m[w.clause].lits),
         ~m[w.clause].garbage => w.blit \in ToSet(m[w.clause].lits) \ {l}
  PROVE  Blocks(Append(ws, w), m, l)
<1> DEFINE N == Len(ws)
<1> DEFINE v == Append(ws, w)
<1>1. /\ DOMAIN ws = 1 .. N /\ N \in Nat /\ DOMAIN v = 1 .. N + 1
      /\ \A i \in 1 .. N : v[i] = ws[i]
      /\ v[N + 1] = w
  BY AppendProperties, LenProperties
<1>2. \A n \in 1 .. N + 1 : n \in 1 .. N \/ n = N + 1
  BY <1>1
<1> HIDE DEF N, v
<1>3. ASSUME NEW n \in 1 .. N + 1
      PROVE /\ v[n].size = Len(m[v[n].clause].lits)
            /\ ~m[v[n].clause].garbage => v[n].blit \in ToSet(m[v[n].clause].lits) \ {l}
  <2>1. CASE n \in 1 .. N
    BY <1>1, <2>1, ZenonT(60) DEF Blocks
  <2>2. CASE n = N + 1
    BY <1>1, <2>2
  <2> QED
    BY <1>2, <2>1, <2>2
<1>4. Blocks(v, m, l)
  BY <1>1, <1>3 DEF Blocks
<1> QED
  BY <1>4 DEF v

\* Clauses of the same length and literals, no matter in which order.
Alike(m, n) ==
  \A c \in Addr : /\ n[c].garbage = m[c].garbage /\ Len(n[c].lits) = Len(m[c].lits)
                  /\ ToSet(n[c].lits) = ToSet(m[c].lits)

LEMMA BlocksAlike ==
  ASSUME NEW m, NEW n, Alike(m, n), NEW ws, \A i \in DOMAIN ws : ws[i].clause \in Addr, NEW l
  PROVE  Blocks(ws, n, l) <=> Blocks(ws, m, l)
BY DEF Alike, Blocks

LEMMA ForcedAlike ==
  ASSUME NEW m, NEW n, Alike(m, n), NEW t \in Seq(Lit), NEW ctl, NEW r \in [Var -> Addr \cup {0}]
  PROVE  Forced(t, ctl, r, n) <=> Forced(t, ctl, r, m)
<1>1. \A i \in DOMAIN t : r[Idx(t[i])] # 0 => r[Idx(t[i])] \in Addr
  <2> SUFFICES ASSUME NEW i \in DOMAIN t PROVE r[Idx(t[i])] \in Addr \cup {0}
    OBVIOUS
  <2>1. t[i] \in Lit
    BY LenProperties, ElementOfSeq
  <2> QED
    BY <2>1, LitFacts
<1>2. \A c \in Addr, i \in DOMAIN t : Forces(t, i, n[c].lits) <=> Forces(t, i, m[c].lits)
  BY DEF Alike, Forces
<1>3. \A c \in Addr : n[c].garbage = m[c].garbage
  BY DEF Alike
<1> QED
  BY ONLY <1>1, <1>2, <1>3 DEF Forced

\* A lower bound on what was visited.
LEMMA LessGuarded ==
  ASSUME NEW t, DOMAIN t \subseteq Int, NEW ctl, NEW m, NEW g \in Int, NEW h \in Int, g <= h,
         AllGuarded(t, ctl, m, h)
  PROVE  AllGuarded(t, ctl, m, g)
<1>1. \A p \in DOMAIN t : p <= g => p <= h
  OBVIOUS
<1> QED
  BY <1>1 DEF AllGuarded, Guarded

-----------------------------------------------------------------------------
\* The loop over the watches of a literal, after n turns.
Done(lit, n) == {watches[lit][i].clause : i \in 1 .. n}

Turned(st, lit, n) ==
  /\ st \in Sound /\ Alike(mem, st.mem) /\ NoRepeats(st.mem)
  /\ \A c \in K : ~mem[c].garbage =>
       /\ \A l \in Lit \ {lit} : Fits(st.watches[l], c, l \in FirstTwo(st.mem[c].lits))
       /\ IF c \in Done(lit, n) THEN Fits(st.kept, c, lit \in FirstTwo(st.mem[c].lits))
          ELSE Never(st.kept, c) /\ st.mem[c].lits = mem[c].lits
  /\ AllBlock(st.watches, mem) /\ Blocks(st.kept, mem, lit)
  /\ AllGuarded(st.trail, control, st.mem, propagated)
  /\ Forced(st.trail, control, st.reason, mem)
  /\ st.conflict = 0 =>
       /\ ~st.stop
       /\ \A c \in Done(lit, n) : ~mem[c].garbage /\ lit \in FirstTwo(st.mem[c].lits) =>
            ToSet(mem[c].lits) \cap ToSet(st.trail) # {}

\* What is known where the loop starts
Looping(lit) ==
  /\ IInv /\ PInv /\ pc = "search" /\ conflict = 0
  /\ propagated < Len(trail) /\ lit = -trail[propagated + 1]

LEMMA LoopFacts ==
  ASSUME NEW lit, Looping(lit)
  PROVE  /\ TypeOK /\ AtRest /\ TrailHolds /\ trail \in Seq(Lit) /\ lit \in Lit /\ trail[propagated + 1] = -lit
         /\ propagated \in Nat /\ propagated + 1 \in DOMAIN trail
         /\ AllFit(watches, mem, K) /\ AllBlock(watches, mem) /\ NoRepeats(mem)
         /\ Forced(trail, control, reason, mem) /\ AllGuarded(trail, control, mem, propagated)
         /\ \A c \in K : mem[c].garbage => Len(mem[c].lits) > 2
         /\ \A c \in K : Len(mem[c].lits) >= 2 /\ mem[c].lits \in Seq(Lit)
         /\ \A c \in Addr : c \notin K => Len(mem[c].lits) = 0
         /\ watches[lit] \in Seq(WatchRecord) /\ DOMAIN watches[lit] = 1 .. Len(watches[lit])
         /\ Len(watches[lit]) \in Nat
         /\ \A n \in 1 .. Len(watches[lit]) : watches[lit][n] \in WatchRecord /\ watches[lit][n].clause \in K
<1>1. TypeOK /\ AtRest /\ TrailHolds /\ trail \in Seq(Lit)
  BY DEF Looping, IInv, TypeOK
<1>2. propagated \in Nat /\ propagated + 1 \in DOMAIN trail /\ trail[propagated + 1] \in Lit
  <2>1. propagated \in Nat /\ propagated < Len(trail) /\ Len(trail) \in Nat /\ DOMAIN trail = 1 .. Len(trail)
    BY <1>1, StoreFacts DEF Looping, TypeOK
  <2>2. propagated + 1 \in 1 .. Len(trail)
    BY <2>1
  <2> QED
    BY <1>1, <2>1, <2>2, StoreFacts
<1>3. lit \in Lit /\ trail[propagated + 1] = -lit
  <2>1. lit = -trail[propagated + 1]
    BY DEF Looping
  <2>2. lit \in Lit /\ trail[propagated + 1] \in Int
    BY <1>2, <2>1, LitFacts
  <2> QED
    BY ONLY <2>1, <2>2
<1>4. /\ AllFit(watches, mem, K) /\ AllBlock(watches, mem) /\ NoRepeats(mem)
      /\ Forced(trail, control, reason, mem) /\ AllGuarded(trail, control, mem, propagated)
      /\ \A c \in K : mem[c].garbage => Len(mem[c].lits) > 2
  BY DEF Looping, PInv, Relocated, GarbageIsLong, Visited
<1>5. /\ \A c \in K : Len(mem[c].lits) >= 2 /\ mem[c].lits \in Seq(Lit)
      /\ \A c \in Addr : c \notin K => Len(mem[c].lits) = 0
  <2>1. StoreIs(mem, K) /\ K \subseteq Addr
    BY <1>1, StoreFacts DEF AtRest, Looping
  <2>2. Len(Free.lits) = 0
    BY <1>1, StoreFacts
  <2>3. \A c \in Addr : mem[c].lits \in Seq(Lit)
    BY <1>1, StoreFacts DEF ClauseRecord
  <2> QED
    BY <2>1, <2>2, <2>3 DEF StoreIs
<1>6. watches[lit] \in Seq(WatchRecord) /\ AllInto(watches, K)
  BY <1>1, <1>3 DEF TypeOK, WatchRecord, AtRest, Looping
<1>7. /\ DOMAIN watches[lit] = 1 .. Len(watches[lit]) /\ Len(watches[lit]) \in Nat
      /\ \A n \in 1 .. Len(watches[lit]) : watches[lit][n] \in WatchRecord
  BY <1>6, LenProperties, ElementOfSeq
<1>8. \A n \in 1 .. Len(watches[lit]) : watches[lit][n].clause \in K
  BY <1>3, <1>6, <1>7 DEF AllInto, Into
<1> QED
  BY <1>1, <1>2, <1>3, <1>4, <1>5, <1>6, <1>7, <1>8

\* What is known of the next watch w, of clause c with literals lits
Met(st, lit, n, w, c, lits) ==
  /\ w \in WatchRecord /\ c \in K /\ c \in Addr /\ w.blit \in Lit
  /\ w.size = Len(lits) /\ lits \in Seq(Lit) /\ Len(lits) \in Nat /\ Len(lits) >= 2
  /\ DOMAIN lits = 1 .. Len(lits) /\ IsInjective(lits)
  /\ ToSet(lits) = ToSet(mem[c].lits) /\ Len(lits) = Len(mem[c].lits)
  /\ st.mem[c].garbage = mem[c].garbage
  /\ \A d : d \in Done(lit, n) <=> d \in Done(lit, n - 1) \/ d = c
  /\ w.size = 2 => ~mem[c].garbage
  /\ ~mem[c].garbage =>
       /\ c \notin Done(lit, n - 1) /\ Never(st.kept, c)
       /\ lits = mem[c].lits /\ lit \in FirstTwo(lits)
       /\ w.blit \in ToSet(lits) \ {lit}

LEMMA NextWatch ==
  ASSUME NEW lit, Looping(lit), NEW n \in 1 .. Len(watches[lit]), NEW st, Turned(st, lit, n - 1),
         NEW w, w = watches[lit][n], NEW c, c = w.clause, NEW lits, lits = st.mem[c].lits
  PROVE  Met(st, lit, n, w, c, lits)
<1>1. w \in WatchRecord /\ c \in K /\ c \in Addr /\ w.blit \in Lit
  <2>1. w \in WatchRecord /\ c \in K
    BY LoopFacts
  <2> QED
    BY <2>1 DEF WatchRecord
<1>2. /\ st \in Sound /\ Alike(mem, st.mem) /\ NoRepeats(st.mem) /\ st.mem \in [Addr -> ClauseRecord]
  BY DEF Turned, Sound, Loop
<1>3. lits \in Seq(Lit) /\ IsInjective(lits) /\ Len(lits) = Len(mem[c].lits)
      /\ ToSet(lits) = ToSet(mem[c].lits) /\ st.mem[c].garbage = mem[c].garbage
  <2> QED
    BY <1>1, <1>2, SMTT(60) DEF NoRepeats, Alike, ClauseRecord
<1>4. Len(lits) \in Nat /\ DOMAIN lits = 1 .. Len(lits)
  <2> QED
    BY ONLY <1>3, LenProperties
<1>5. Len(lits) >= 2
  BY <1>1, <1>3, LoopFacts, ZenonT(60)
<1>6. n \in DOMAIN watches[lit] /\ n \in Nat /\ lit \in Lit
      /\ DOMAIN watches[lit] = 1 .. Len(watches[lit]) /\ Len(watches[lit]) \in Nat
  BY LoopFacts
<1>7. w.size = Len(lits) /\ (~mem[c].garbage => w.blit \in ToSet(lits) \ {lit})
  <2>1. Blocks(watches[lit], mem, lit)
    BY <1>6, LoopFacts DEF AllBlock
  <2> QED
    BY <1>3, <1>6, <2>1 DEF Blocks
<1>8. \A d : d \in Done(lit, n) <=> d \in Done(lit, n - 1) \/ d = c
  <2>1. \A i : i \in 1 .. n <=> i \in 1 .. n - 1 \/ i = n
    BY <1>6
  <2> QED
    BY <2>1 DEF Done
<1>9. w.size = 2 => ~mem[c].garbage
  <2>1. mem[c].garbage => Len(mem[c].lits) > 2
    BY <1>1, LoopFacts, ZenonT(60)
  <2>2. w.size = Len(mem[c].lits)
    BY <1>3, <1>7
  <2> QED
    BY ONLY <2>1, <2>2
<1>10. ASSUME ~mem[c].garbage
       PROVE  /\ c \notin Done(lit, n - 1) /\ Never(st.kept, c) /\ lits = mem[c].lits
              /\ lit \in FirstTwo(mem[c].lits)
  <2>1. Fits(watches[lit], c, lit \in FirstTwo(mem[c].lits))
    BY <1>1, <1>6, <1>10, LoopFacts, ZenonT(60) DEF AllFit
  <2>2. ~Never(watches[lit], c)
    BY <1>6 DEF Never
  <2>3. lit \in FirstTwo(mem[c].lits) /\ Once(watches[lit], c)
    BY <2>1, <2>2 DEF Fits
  <2>4. PICK k \in DOMAIN watches[lit] : \A m \in DOMAIN watches[lit] : watches[lit][m].clause = c <=> m = k
    BY <2>3 DEF Once
  <2>5. k = n
    BY <1>6, <2>4
  <2>6. \A i \in 1 .. n - 1 : i \in DOMAIN watches[lit] /\ i # n
    BY <1>6
  <2>7. c \notin Done(lit, n - 1)
    BY <2>4, <2>5, <2>6 DEF Done
  <2> QED
    BY <1>1, <1>10, <2>3, <2>7 DEF Turned
<1> QED
  BY <1>1, <1>3, <1>4, <1>5, <1>7, <1>8, <1>9, <1>10 DEF Met


-----------------------------------------------------------------------------
\* The trail grows.
Grown(t, u) == DOMAIN t \subseteq DOMAIN u /\ \A n \in DOMAIN t : u[n] = t[n]

LEMMA GrownGuarded ==
  ASSUME NEW t, NEW u, Grown(t, u), NEW ctl, NEW m, NEW h, AllGuarded(t, ctl, m, h),
         \A p \in DOMAIN u : p <= h => p \in DOMAIN t
  PROVE  AllGuarded(u, ctl, m, h)
<1> SUFFICES ASSUME NEW c \in Addr, Live(m, c), NEW i \in {1, 2}, NEW p \in DOMAIN u,
                    p <= h, u[p] = -m[c].lits[i]
             PROVE  \E q \in DOMAIN u : u[q] \in ToSet(m[c].lits) /\ NotAbove(ctl, q, p)
  BY DEF AllGuarded, Guarded
<1>1. p \in DOMAIN t /\ t[p] = -m[c].lits[i]
  BY DEF Grown
<1>2. PICK q \in DOMAIN t : t[q] \in ToSet(m[c].lits) /\ NotAbove(ctl, q, p)
  BY <1>1 DEF AllGuarded, Guarded
<1> QED
  BY <1>2 DEF Grown

LEMMA GrownForces ==
  ASSUME NEW t, NEW u, Grown(t, u), NEW n \in DOMAIN t, 1 .. n \subseteq DOMAIN t, NEW lits, Forces(t, n, lits)
  PROVE  Forces(u, n, lits)
BY DEF Grown, Forces

LEMMA AppendGrown ==
  ASSUME NEW t \in Seq(Lit), NEW l \in Lit
  PROVE  /\ Append(t, l) \in Seq(Lit) /\ Grown(t, Append(t, l)) /\ Append(t, l)[Len(t) + 1] = l
         /\ DOMAIN Append(t, l) = DOMAIN t \cup {Len(t) + 1} /\ Len(t) + 1 \notin DOMAIN t
         /\ DOMAIN t = 1 .. Len(t) /\ Len(t) \in Nat /\ Len(Append(t, l)) = Len(t) + 1
         /\ ToSet(Append(t, l)) = ToSet(t) \cup {l}
<1> DEFINE N == Len(t)
<1> DEFINE v == Append(t, l)
<1>1. /\ v \in Seq(Lit) /\ DOMAIN t = 1 .. N /\ N \in Nat /\ DOMAIN v = 1 .. N + 1 /\ Len(v) = N + 1
      /\ \A i \in 1 .. N : v[i] = t[i]
      /\ v[N + 1] = l
  BY AppendProperties, LenProperties
<1>2. 1 .. N + 1 = 1 .. N \cup {N + 1} /\ N + 1 \notin 1 .. N
  BY <1>1
<1> HIDE DEF N, v
<1>3. Grown(t, v)
  BY <1>1, <1>2 DEF Grown
<1>4. ToSet(v) = ToSet(t) \cup {l}
  BY <1>1, <1>2 DEF ToSet
<1> QED
  BY <1>1, <1>2, <1>3, <1>4 DEF N, v

\* A literal is assigned with the clause that forces it.
LEMMA ForcedAppend ==
  ASSUME NEW t \in Seq(Lit), NEW ctl, NEW r \in [Var -> Addr \cup {0}], NEW m, Forced(t, ctl, r, m),
         NoneTwice(t), NEW l \in Lit, ~Contains(t, l), ~Contains(t, -l),
         NEW c \in Addr, ~m[c].garbage, l \in ToSet(m[c].lits),
         \A k \in ToSet(m[c].lits) \ {l} : -k \in ToSet(t)
  PROVE  Forced(Append(t, l), ctl, [r EXCEPT ![Idx(l)] = c], m)
<1> DEFINE N == Len(t)
<1> DEFINE u == Append(t, l)
<1> DEFINE s == [r EXCEPT ![Idx(l)] = c]
<1>1. /\ Grown(t, u) /\ u[N + 1] = l /\ DOMAIN u = 1 .. N \cup {N + 1} /\ DOMAIN t = 1 .. N /\ N \in Nat
      /\ N + 1 \notin 1 .. N
  BY AppendGrown
<1>2. \A n \in 1 .. N : u[n] = t[n] /\ Idx(t[n]) # Idx(l) /\ Idx(t[n]) \in Var
  <2>1. \A n \in 1 .. N : Append(t, l)[n] = t[n] /\ Idx(t[n]) # Idx(l)
    BY AppendNoneTwice
  <2>2. \A n \in 1 .. N : t[n] \in Lit
    BY LenProperties, ElementOfSeq
  <2> QED
    BY <2>1, <2>2, LitFacts
<1>3. Idx(l) \in Var
  BY LitFacts
<1>4. s[Idx(l)] = c /\ \A n \in 1 .. N : s[Idx(u[n])] = r[Idx(t[n])]
  BY <1>2, <1>3
<1> HIDE DEF N, u, s
<1>5. ASSUME NEW n \in 1 .. N, Len(ctl) > 0, n > ctl[1], s[Idx(u[n])] # 0
      PROVE  ~m[s[Idx(u[n])]].garbage /\ Forces(u, n, m[s[Idx(u[n])]].lits)
  <2>1. ~m[r[Idx(t[n])]].garbage /\ Forces(t, n, m[r[Idx(t[n])]].lits)
    BY <1>1, <1>4, <1>5 DEF Forced
  <2>2. 1 .. n \subseteq DOMAIN t
    BY <1>1
  <2> QED
    BY <1>1, <1>4, <2>1, <2>2, GrownForces
<1>6. Forces(u, N + 1, m[c].lits)
  <2> SUFFICES ASSUME NEW k \in ToSet(m[c].lits) \ {l} PROVE \E p \in 1 .. N + 1 : u[p] = -k
    BY <1>1 DEF Forces
  <2>1. PICK p \in 1 .. N : t[p] = -k
    BY <1>1 DEF ToSet
  <2>2. p \in 1 .. N + 1
    BY <1>1
  <2> QED
    BY <1>2, <2>1, <2>2
<1>7. Forced(u, ctl, s, m)
  <2>1. ASSUME NEW n \in DOMAIN u, Len(ctl) > 0, n > ctl[1], s[Idx(u[n])] # 0
        PROVE  ~m[s[Idx(u[n])]].garbage /\ Forces(u, n, m[s[Idx(u[n])]].lits)
    <3>1. CASE n \in 1 .. N
      BY <1>5, <2>1, <3>1
    <3>2. CASE n = N + 1
      BY <1>1, <1>4, <1>6, <3>2, SMTT(60)
    <3> QED
      BY <1>1, <3>1, <3>2
  <2> QED
    BY <2>1 DEF Forced
<1> QED
  BY <1>7 DEF u, s

-----------------------------------------------------------------------------
\* A turn that keeps its watch, and may assign the other literal of the clause.
Propagates(st, st2, l, c) ==
  /\ Value(st, l) = 0 /\ ~mem[c].garbage /\ l \in ToSet(mem[c].lits)
  /\ \A k \in ToSet(mem[c].lits) \ {l} : -k \in ToSet(st.trail)
  /\ st2.trail = Append(st.trail, l) /\ st2.reason = [st.reason EXCEPT ![Idx(l)] = c]

\* st2 comes from st by keeping v, the watch w of lit with another blocking literal perhaps.
Keeps(st, lit, w, st2, v) ==
  /\ st2.mem = st.mem /\ st2.watches = st.watches /\ st2.kept = Append(st.kept, v)
  /\ v \in WatchRecord /\ v.clause = w.clause /\ v.size = w.size
  /\ ~mem[v.clause].garbage => v.blit \in ToSet(mem[v.clause].lits) \ {lit}
  /\ \/ st2.trail = st.trail /\ st2.reason = st.reason
     \/ \E l \in Lit : Propagates(st, st2, l, v.clause)
  /\ st2.conflict = 0 =>
       /\ st.conflict = 0 /\ ~st2.stop
       /\ ~mem[v.clause].garbage => ToSet(mem[v.clause].lits) \cap ToSet(st2.trail) # {}

LEMMA KeepTurn ==
  ASSUME NEW lit, Looping(lit), NEW n \in 1 .. Len(watches[lit]), NEW st, Turned(st, lit, n - 1),
         NEW st2 \in Sound, NEW v, Keeps(st, lit, watches[lit][n], st2, v)
  PROVE  Turned(st2, lit, n)
<1> SUFFICES ASSUME st2.mem = st.mem, st2.watches = st.watches,
                    v \in WatchRecord, st2.kept = Append(st.kept, v),
                    v.clause = watches[lit][n].clause, v.size = watches[lit][n].size,
                    ~mem[v.clause].garbage => v.blit \in ToSet(mem[v.clause].lits) \ {lit},
                    \/ st2.trail = st.trail /\ st2.reason = st.reason
                    \/ \E l \in Lit : Propagates(st, st2, l, v.clause),
                    st2.conflict = 0 =>
                      /\ st.conflict = 0 /\ ~st2.stop
                      /\ ~mem[v.clause].garbage => ToSet(mem[v.clause].lits) \cap ToSet(st2.trail) # {}
             PROVE  Turned(st2, lit, n)
  BY DEF Keeps
<1> DEFINE c == v.clause
<1>1. /\ c \in K /\ c \in Addr /\ \A d : d \in Done(lit, n) <=> d \in Done(lit, n - 1) \/ d = c
      /\ v.size = Len(mem[c].lits)
      /\ ~mem[c].garbage => c \notin Done(lit, n - 1) /\ Never(st.kept, c) /\ st.mem[c].lits = mem[c].lits
                            /\ lit \in FirstTwo(st.mem[c].lits)
  <2>1. PICK w : w = watches[lit][n]
    OBVIOUS
  <2>2. PICK lits : lits = st.mem[c].lits
    OBVIOUS
  <2>3. c = w.clause /\ v.size = w.size
    BY <2>1
  <2>4. Met(st, lit, n, w, c, lits)
    <3> HIDE DEF c
    <3> QED
      BY <2>1, <2>2, <2>3, NextWatch, ZenonT(60)
  <2> QED
    BY ONLY <2>2, <2>3, <2>4 DEF Met
<1>2. /\ st \in Sound /\ st.trail \in Seq(Lit) /\ st.kept \in Seq(WatchRecord)
      /\ st.reason \in [Var -> Addr \cup {0}] /\ NoneTwice(st.trail) /\ Len(trail) <= Len(st.trail)
  BY ZenonT(60) DEF Turned, Sound, Loop, Extends
<1>3. Grown(st.trail, st2.trail) /\ ToSet(st.trail) \subseteq ToSet(st2.trail)
  <2>1. CASE st2.trail = st.trail
    BY <2>1, ZenonT(60) DEF Grown
  <2>2. CASE \E l \in Lit : Propagates(st, st2, l, c)
    BY <1>2, <2>2, AppendGrown DEF Propagates
  <2> QED
    BY <2>1, <2>2
<1>4. DOMAIN st.trail = 1 .. Len(st.trail) /\ Len(st.trail) \in Nat /\ Len(trail) \in Nat
  BY <1>2, LoopFacts, LenProperties
<1>5. AllGuarded(st2.trail, control, st2.mem, propagated)
  <2>1. AllGuarded(st.trail, control, st2.mem, propagated)
    BY ZenonT(60) DEF Turned
  <2>2. propagated \in Nat /\ propagated < Len(trail)
    BY LoopFacts DEF Looping
  <2>3. DOMAIN st2.trail \subseteq Nat \ {0}
    BY LenProperties, SMTT(60) DEF Sound, Loop
  <2>4. \A p \in DOMAIN st2.trail : p <= propagated => p \in DOMAIN st.trail
    BY <1>2, <1>4, <2>2, <2>3, SMTT(60)
  <2> QED
    BY <1>3, <2>1, <2>4, GrownGuarded
<1>6. Forced(st2.trail, control, st2.reason, mem)
  <2>1. Forced(st.trail, control, st.reason, mem)
    BY DEF Turned
  <2>2. CASE st2.trail = st.trail /\ st2.reason = st.reason
    BY <2>1, <2>2
  <2>3. CASE \E l \in Lit : Propagates(st, st2, l, c)
    <3>1. PICK l \in Lit : Propagates(st, st2, l, c)
      BY <2>3, ZenonT(60)
    <3>2. ~Contains(st.trail, l) /\ ~Contains(st.trail, -l)
      BY <3>1, SMTT(60) DEF Propagates, Value
    <3> HIDE DEF c
    <3>3. /\ ~mem[c].garbage /\ l \in ToSet(mem[c].lits)
          /\ \A k \in ToSet(mem[c].lits) \ {l} : -k \in ToSet(st.trail)
          /\ st2.trail = Append(st.trail, l) /\ st2.reason = [st.reason EXCEPT ![Idx(l)] = c]
      BY <3>1 DEF Propagates
    <3>4. Forced(Append(st.trail, l), control, [st.reason EXCEPT ![Idx(l)] = c], mem)
      BY ONLY <1>1, <1>2, <2>1, <3>1, <3>2, <3>3, ForcedAppend
    <3> QED
      BY ONLY <3>3, <3>4
  <2> QED
    BY <2>2, <2>3
<1>7. ASSUME NEW d \in K, ~mem[d].garbage
      PROVE  /\ \A l \in Lit \ {lit} : Fits(st2.watches[l], d, l \in FirstTwo(st2.mem[d].lits))
             /\ IF d \in Done(lit, n) THEN Fits(st2.kept, d, lit \in FirstTwo(st2.mem[d].lits))
                ELSE Never(st2.kept, d) /\ st2.mem[d].lits = mem[d].lits
  <2>1. /\ \A l \in Lit \ {lit} : Fits(st.watches[l], d, l \in FirstTwo(st.mem[d].lits))
        /\ IF d \in Done(lit, n - 1) THEN Fits(st.kept, d, lit \in FirstTwo(st.mem[d].lits))
           ELSE Never(st.kept, d) /\ st.mem[d].lits = mem[d].lits
    BY <1>7 DEF Turned
  <2>2. /\ Never(st.kept, d) /\ v.clause # d => Never(st2.kept, d)
        /\ Never(st.kept, d) /\ v.clause = d => Once(st2.kept, d)
        /\ Once(st.kept, d) /\ v.clause # d => Once(st2.kept, d)
    BY <1>2, AppendFits, ZenonT(60)
  <2>3. CASE d = c
    BY <1>1, <1>7, <2>1, <2>2, <2>3, ZenonT(60) DEF Fits
  <2>4. CASE d # c
    BY <1>1, <2>1, <2>2, <2>4, ZenonT(60) DEF Fits
  <2> QED
    BY <2>3, <2>4
<1>8. AllBlock(st2.watches, mem) /\ Blocks(st2.kept, mem, lit)
  <2>1. AllBlock(st.watches, mem) /\ Blocks(st.kept, mem, lit)
    BY DEF Turned
  <2> QED
    BY <1>1, <1>2, <2>1, AppendBlocks, SMTT(60)
<1>9. st2.conflict = 0 =>
        /\ ~st2.stop
        /\ \A d \in Done(lit, n) : ~mem[d].garbage /\ lit \in FirstTwo(st2.mem[d].lits) =>
             ToSet(mem[d].lits) \cap ToSet(st2.trail) # {}
  <2> SUFFICES ASSUME st2.conflict = 0, NEW d \in Done(lit, n), ~mem[d].garbage,
                      lit \in FirstTwo(st2.mem[d].lits)
               PROVE  ToSet(mem[d].lits) \cap ToSet(st2.trail) # {}
    BY SMTT(60)
  <2>1. CASE d = c
    BY <2>1, ZenonT(60)
  <2>2. CASE d # c
    BY <1>1, <1>3, <2>2 DEF Turned
  <2> QED
    BY <2>1, <2>2
<1>10. Alike(mem, st2.mem) /\ NoRepeats(st2.mem)
  BY DEF Turned
<1> QED
  BY <1>5, <1>6, <1>7, <1>8, <1>9, <1>10 DEF Turned

\* A turn that drops the watch of a clause that is garbage
LEMMA DropTurn ==
  ASSUME NEW lit, Looping(lit), NEW n \in 1 .. Len(watches[lit]), NEW st, Turned(st, lit, n - 1),
         mem[watches[lit][n].clause].garbage
  PROVE  Turned(st, lit, n)
<1>a. PICK w : w = watches[lit][n]
  OBVIOUS
<1>b. PICK c : c = w.clause
  OBVIOUS
<1>c. PICK lits : lits = st.mem[c].lits
  OBVIOUS
<1>0. Met(st, lit, n, w, c, lits)
  BY <1>a, <1>b, <1>c, NextWatch, ZenonT(60)
<1>1. \A d : d \in Done(lit, n) <=> d \in Done(lit, n - 1) \/ d = watches[lit][n].clause
  BY ONLY <1>0, <1>a, <1>b DEF Met
<1>2. \A d : ~mem[d].garbage => (d \in Done(lit, n) <=> d \in Done(lit, n - 1))
  BY <1>1
<1> QED
  BY <1>2 DEF Turned

-----------------------------------------------------------------------------
\* A turn that watches another literal: the clause is permuted.
Permuted(lits, k, lit, other) ==
  [n \in DOMAIN lits |-> IF n = 1 THEN other ELSE IF n = 2 THEN lits[k]
                         ELSE IF n = k THEN lit ELSE lits[n]]

LEMMA PermutedIs ==
  ASSUME NEW lits \in Seq(Lit), IsInjective(lits), NEW k \in 3 .. Len(lits), NEW lit, lit \in FirstTwo(lits),
         NEW other, other = IF lits[1] = lit THEN lits[2] ELSE lits[1],
         NEW next, next = Permuted(lits, k, lit, other)
  PROVE  /\ Len(next) = Len(lits) /\ ToSet(next) = ToSet(lits) /\ IsInjective(next)
         /\ next[1] = other /\ next[2] = lits[k]
         /\ other # lit /\ other # lits[k] /\ lit # lits[k]
         /\ lit \in ToSet(lits) /\ other \in ToSet(lits) /\ lits[k] \in ToSet(lits)
         /\ lit \in Lit /\ other \in Lit /\ lits[k] \in Lit
<1> DEFINE N == Len(lits)
<1> DEFINE at == IF lits[1] = lit THEN 1 ELSE 2
<1> DEFINE pi == [n \in 1 .. N |-> IF n = 1 THEN 3 - at ELSE IF n = 2 THEN k ELSE IF n = k THEN at ELSE n]
<1>1. DOMAIN lits = 1 .. N /\ N \in Nat /\ N >= 3 /\ k \in Nat /\ k >= 3 /\ k <= N
      /\ \A n \in 1 .. N : lits[n] \in Lit
  BY LenProperties, ElementOfSeq
<1>2. at \in {1, 2} /\ 3 - at \in {1, 2} /\ 3 - at # at /\ lits[at] = lit /\ lits[3 - at] = other
      /\ 1 \in 1 .. N /\ 2 \in 1 .. N /\ k \in 1 .. N
  BY <1>1 DEF FirstTwo
<1>3. \A m, n \in 1 .. N : lits[m] = lits[n] => m = n
  BY <1>1 DEF IsInjective
<1> HIDE DEF at, N
<1>4. \A n \in 1 .. N : pi[n] \in 1 .. N /\ pi[n] = IF n = 1 THEN 3 - at ELSE IF n = 2 THEN k
                                                   ELSE IF n = k THEN at ELSE n
  BY <1>1, <1>2
<1>5. DOMAIN next = 1 .. N /\ \A n \in 1 .. N : next[n] = lits[pi[n]]
  BY <1>1, <1>2, <1>4 DEF Permuted
<1>6. next \in Seq(Lit) /\ Len(next) = N
  <2>1. next = [n \in 1 .. N |-> next[n]]
    BY <1>1 DEF Permuted
  <2>2. \A n \in 1 .. N : next[n] \in Lit
    BY <1>1, <1>4, <1>5, ZenonT(60)
  <2> QED
    BY <1>1, <2>1, <2>2, SMTT(60)
<1> HIDE DEF pi
<1>7. \A m, n \in 1 .. N : pi[m] = pi[n] => m = n
  BY <1>1, <1>2, <1>4
<1>8. IsInjective(next)
  <2>1. \A m, n \in DOMAIN next : next[m] = next[n] => m = n
    BY ONLY <1>3, <1>4, <1>5, <1>7, SMTT(60)
  <2> QED
    BY ONLY <2>1 DEF IsInjective
<1>9. \A n \in 1 .. N : \E m \in 1 .. N : pi[m] = n
  <2> SUFFICES ASSUME NEW n \in 1 .. N PROVE \E m \in 1 .. N : pi[m] = n
    OBVIOUS
  <2>1. CASE n = 3 - at
    BY <1>2, <1>4, <2>1
  <2>2. CASE n = k
    BY <1>2, <1>4, <2>2
  <2>3. CASE n = at
    BY <1>1, <1>2, <1>4, <2>3
  <2>4. CASE n # 3 - at /\ n # k /\ n # at
    BY <1>1, <1>2, <1>4, <2>4
  <2> QED
    BY <2>1, <2>2, <2>3, <2>4
<1>10. ToSet(next) = ToSet(lits)
  <2>1. \A n \in 1 .. N : \E m \in 1 .. N : next[m] = lits[n]
    BY <1>5, <1>9, SMTT(60)
  <2>2. \A n \in 1 .. N : \E m \in 1 .. N : next[n] = lits[m]
    BY <1>4, <1>5
  <2>3. DOMAIN lits = 1 .. N /\ DOMAIN next = 1 .. N
    BY <1>1, <1>5
  <2>4. ToSet(next) \subseteq ToSet(lits)
    BY ONLY <2>2, <2>3 DEF ToSet
  <2>5. ToSet(lits) \subseteq ToSet(next)
    BY ONLY <2>1, <2>3, SMTT(60) DEF ToSet
  <2> QED
    BY <2>4, <2>5
<1>11. next[1] = other /\ next[2] = lits[k]
  BY <1>2, <1>4, <1>5
<1>12. other # lit /\ other # lits[k] /\ lit # lits[k]
  BY <1>1, <1>2, <1>3
<1>13. /\ lit \in ToSet(lits) /\ other \in ToSet(lits) /\ lits[k] \in ToSet(lits)
       /\ lit \in Lit /\ other \in Lit /\ lits[k] \in Lit
  BY <1>1, <1>2 DEF ToSet
<1> QED
  BY <1>6, <1>8, <1>10, <1>11, <1>12, <1>13 DEF N

\* Literal k takes the place of lit beside other.
Replaces(st, lit, w, k, other, st2) ==
  LET lits == st.mem[w.clause].lits
  IN /\ ~mem[w.clause].garbage /\ k \in 3 .. Len(lits) /\ Value(st, lits[k]) = 0
     /\ other = IF lits[1] = lit THEN lits[2] ELSE lits[1]
     /\ st2 = Rewatched(st, w, lits, k, lit, other)

LEMMA RewatchTurn ==
  ASSUME NEW lit, Looping(lit), NEW n \in 1 .. Len(watches[lit]), NEW st, Turned(st, lit, n - 1),
         NEW w, w = watches[lit][n], NEW k, NEW other, NEW st2, Replaces(st, lit, w, k, other, st2)
  PROVE  Turned(st2, lit, n)
<1>a. PICK c : c = w.clause
  OBVIOUS
<1>b. PICK lits : lits = st.mem[c].lits
  BY ZenonT(60)
<1>c. st2 = Rewatched(st, w, lits, k, lit, other) /\ ~mem[c].garbage /\ Value(st, lits[k]) = 0
  BY <1>a, <1>b, ZenonT(60) DEF Replaces
<1>d. PICK next : next = Permuted(lits, k, lit, other)
  BY ZenonT(60)
<1>e. PICK v : v = [w EXCEPT !.blit = lit]
  BY ZenonT(60)
<1>f. k \in 3 .. Len(lits) /\ other = IF lits[1] = lit THEN lits[2] ELSE lits[1]
  BY <1>a, <1>b, ZenonT(60) DEF Replaces
<1>1. /\ w \in WatchRecord /\ c \in K /\ c \in Addr /\ w.size = Len(lits) /\ lits \in Seq(Lit)
      /\ Len(lits) \in Nat /\ DOMAIN lits = 1 .. Len(lits) /\ IsInjective(lits)
      /\ ToSet(lits) = ToSet(mem[c].lits) /\ Len(lits) = Len(mem[c].lits)
      /\ \A d : d \in Done(lit, n) <=> d \in Done(lit, n - 1) \/ d = c
      /\ c \notin Done(lit, n - 1) /\ Never(st.kept, c) /\ lit \in FirstTwo(lits)
  <2>1. Met(st, lit, n, w, c, lits)
    BY <1>a, <1>b, NextWatch, ZenonT(60)
  <2> QED
    BY ONLY <1>c, <2>1 DEF Met
<1>2. lit \in Lit /\ st \in Sound
  BY LoopFacts DEF Turned
<1>3. /\ Len(next) = Len(lits) /\ ToSet(next) = ToSet(lits) /\ IsInjective(next)
      /\ FirstTwo(next) = {other, lits[k]} /\ FirstTwo(lits) = {lit, other}
      /\ next[1] = other /\ next[2] = lits[k]
      /\ other # lit /\ other # lits[k] /\ lit # lits[k]
      /\ lit \in ToSet(lits) /\ other \in ToSet(lits) /\ lits[k] \in ToSet(lits)
      /\ lit \in Lit /\ other \in Lit /\ lits[k] \in Lit
  <2>1. lits \in Seq(Lit) /\ IsInjective(lits) /\ lit \in FirstTwo(lits)
    BY <1>1
  <2>2. /\ Len(next) = Len(lits) /\ ToSet(next) = ToSet(lits) /\ IsInjective(next)
        /\ next[1] = other /\ next[2] = lits[k]
        /\ other # lit /\ other # lits[k] /\ lit # lits[k]
        /\ lit \in ToSet(lits) /\ other \in ToSet(lits) /\ lits[k] \in ToSet(lits)
        /\ lit \in Lit /\ other \in Lit /\ lits[k] \in Lit
    BY ONLY <1>d, <1>f, <2>1, PermutedIs
  <2>3. FirstTwo(next) = {other, lits[k]} /\ FirstTwo(lits) = {lit, other}
    BY ONLY <1>f, <2>1, <2>2 DEF FirstTwo
  <2> QED
    BY ONLY <2>2, <2>3
<1>4. k \in DOMAIN lits
  BY <1>1, <1>f
<1>5. /\ st2.kept = st.kept /\ st2.trail = st.trail /\ st2.reason = st.reason
      /\ st2.conflict = st.conflict /\ st2.stop = st.stop
      /\ \A d \in Addr : st2.mem[d].garbage = st.mem[d].garbage
      /\ \A d \in Addr : st2.mem[d].lits = IF d = c THEN next ELSE st.mem[d].lits
      /\ v \in WatchRecord /\ v.clause = c /\ v.blit = lit /\ v.size = w.size
      /\ \A l \in Lit : st2.watches[l] = IF l = lits[k] THEN Append(st.watches[l], v) ELSE st.watches[l]
  <2> DEFINE r == [st.mem[c] EXCEPT !.lits = next]
  <2> DEFINE m == [st.mem EXCEPT ![c] = r]
  <2> DEFINE ws == [st.watches EXCEPT ![lits[k]] = Append(st.watches[lits[k]], v)]
  <2>1. st \in Loop /\ c \in Addr /\ st.mem \in [Addr -> ClauseRecord] /\ st.mem[c] \in ClauseRecord
        /\ st.watches \in [Lit -> Seq(WatchRecord)]
    BY <1>1, <1>2, ZenonT(60) DEF Sound, Loop
  <2>2. v \in WatchRecord /\ v.clause = c /\ v.blit = lit /\ v.size = w.size
    BY ONLY <1>1, <1>2, <1>a, <1>e, SMTT(60) DEF WatchRecord
  <2>3. st2 = [[st EXCEPT !.mem = m] EXCEPT !.watches = ws]
    BY ONLY <1>a, <1>b, <1>c, <1>d, <1>e DEF Rewatched, Permuted
  <2>4. r.lits = next /\ r.garbage = st.mem[c].garbage
    BY <2>1 DEF ClauseRecord
  <2>5. \A d \in Addr : m[d] = IF d = c THEN r ELSE st.mem[d]
    <3> HIDE DEF r
    <3> QED
      BY ONLY <2>1
  <2>6. \A l \in Lit : ws[l] = IF l = lits[k] THEN Append(st.watches[l], v) ELSE st.watches[l]
    BY ONLY <1>3, <2>1
  <2> HIDE DEF m, ws, r
  <2>7. /\ st2.kept = st.kept /\ st2.trail = st.trail /\ st2.reason = st.reason
        /\ st2.conflict = st.conflict /\ st2.stop = st.stop /\ st2.mem = m /\ st2.watches = ws
    BY ONLY <2>1, <2>3 DEF Loop
  <2> QED
    BY <2>2, <2>4, <2>5, <2>6, <2>7
<1>6. st2 \in Sound
  <2>1. /\ st \in Sound /\ w \in WatchRecord /\ w.clause \in K /\ lit \in Lit /\ other \in Lit
        /\ k \in 3 .. Len(st.mem[w.clause].lits)
    BY ONLY <1>1, <1>2, <1>3, <1>a, <1>b, <1>f, ZenonT(60)
  <2>2. st2 = Rewatched(st, w, st.mem[w.clause].lits, k, lit, other)
    BY ONLY <1>a, <1>b, <1>c
  <2> QED
    BY ONLY <2>1, <2>2, RewatchedSound, ZenonT(60)
<1>7. /\ st.watches \in [Lit -> Seq(WatchRecord)] /\ K \subseteq Addr
      /\ Alike(mem, st.mem) /\ NoRepeats(st.mem)
  BY LoopFacts, StoreFacts DEF Turned, Sound, Loop
<1>8. Alike(mem, st2.mem) /\ NoRepeats(st2.mem)
  <2>1. ASSUME NEW d \in Addr
        PROVE  /\ st2.mem[d].garbage = mem[d].garbage /\ Len(st2.mem[d].lits) = Len(mem[d].lits)
               /\ ToSet(st2.mem[d].lits) = ToSet(mem[d].lits) /\ IsInjective(st2.mem[d].lits)
    <3>1. CASE d = c
      <4>1. st2.mem[d].lits = next /\ st2.mem[d].garbage = st.mem[c].garbage
        BY <1>1, <1>5, <3>1
      <4>2. st.mem[c].garbage = mem[c].garbage
        BY <1>1, <1>7 DEF Alike
      <4> QED
        BY ONLY <1>1, <1>3, <3>1, <4>1, <4>2
    <3>2. CASE d # c
      BY ONLY <1>5, <1>7, <3>2 DEF Alike, NoRepeats
    <3> QED
      BY ONLY <3>1, <3>2
  <2> QED
    BY <2>1 DEF Alike, NoRepeats
<1>9. ASSUME NEW d \in K, ~mem[d].garbage
      PROVE  /\ \A l \in Lit \ {lit} : Fits(st2.watches[l], d, l \in FirstTwo(st2.mem[d].lits))
             /\ IF d \in Done(lit, n) THEN Fits(st2.kept, d, lit \in FirstTwo(st2.mem[d].lits))
                ELSE Never(st2.kept, d) /\ st2.mem[d].lits = mem[d].lits
  <2>1. /\ \A l \in Lit \ {lit} : Fits(st.watches[l], d, l \in FirstTwo(st.mem[d].lits))
        /\ IF d \in Done(lit, n - 1) THEN Fits(st.kept, d, lit \in FirstTwo(st.mem[d].lits))
           ELSE Never(st.kept, d) /\ st.mem[d].lits = mem[d].lits
    BY <1>9 DEF Turned
  <2>2. \A l \in Lit : /\ Never(st.watches[l], d) /\ c # d => Never(Append(st.watches[l], v), d)
                       /\ Never(st.watches[l], d) /\ c = d => Once(Append(st.watches[l], v), d)
                       /\ Once(st.watches[l], d) /\ c # d => Once(Append(st.watches[l], v), d)
    BY <1>5, <1>7, AppendFits
  <2>3. d \in Addr
    BY <1>7
  <2>4. CASE d = c
    <3>1. FirstTwo(st2.mem[d].lits) = {other, lits[k]} /\ FirstTwo(st.mem[d].lits) = {lit, other}
      BY ONLY <1>3, <1>5, <1>b, <2>3, <2>4
    <3>2. ASSUME NEW l \in Lit \ {lit} PROVE Fits(st2.watches[l], d, l \in FirstTwo(st2.mem[d].lits))
      <4>1. CASE l = lits[k]
        <5>1. Never(st.watches[l], d)
          BY ONLY <1>3, <2>1, <3>1, <4>1 DEF Fits
        <5> QED
          BY ONLY <1>5, <2>2, <2>4, <3>1, <4>1, <5>1 DEF Fits
      <4>2. CASE l # lits[k]
        <5>1. st2.watches[l] = st.watches[l] /\ (l \in FirstTwo(st2.mem[d].lits) <=> l \in FirstTwo(st.mem[d].lits))
          BY ONLY <1>5, <3>1, <4>2
        <5> QED
          BY ONLY <2>1, <5>1 DEF Fits
      <4> QED
        BY ONLY <4>1, <4>2
    <3>3. d \in Done(lit, n) /\ Fits(st2.kept, d, lit \in FirstTwo(st2.mem[d].lits))
      BY ONLY <1>1, <1>3, <1>5, <2>4, <3>1 DEF Fits
    <3> QED
      BY ONLY <3>2, <3>3
  <2>5. CASE d # c
    <3>1. st2.mem[d].lits = st.mem[d].lits /\ (d \in Done(lit, n) <=> d \in Done(lit, n - 1))
      BY <1>1, <1>5, <2>3, <2>5
    <3>2. \A l \in Lit \ {lit} : Fits(st2.watches[l], d, l \in FirstTwo(st2.mem[d].lits))
      BY <1>5, <2>1, <2>2, <2>5, <3>1 DEF Fits
    <3> QED
      BY <1>5, <2>1, <3>1, <3>2
  <2> QED
    BY <2>4, <2>5
<1>10. AllBlock(st2.watches, mem) /\ Blocks(st2.kept, mem, lit)
  <2>1. AllBlock(st.watches, mem) /\ Blocks(st.kept, mem, lit)
    BY DEF Turned
  <2>2. ASSUME NEW l \in Lit PROVE Blocks(st2.watches[l], mem, l)
    <3>1. CASE l = lits[k]
      <4>1. v.size = Len(mem[v.clause].lits) /\ v.blit \in ToSet(mem[v.clause].lits) \ {l}
        BY ONLY <1>1, <1>3, <1>5, <3>1
      <4>2. Blocks(Append(st.watches[l], v), mem, l)
        BY <1>5, <1>7, <2>1, <4>1, AppendBlocks, ZenonT(60) DEF AllBlock
      <4> QED
        BY ONLY <1>5, <3>1, <4>2
    <3>2. CASE l # lits[k]
      BY <1>5, <2>1, <3>2 DEF AllBlock
    <3> QED
      BY <3>1, <3>2
  <2> QED
    BY <1>5, <2>1, <2>2 DEF AllBlock
<1>11. AllGuarded(st2.trail, control, st2.mem, propagated)
  <2>0. AllGuarded(st.trail, control, st.mem, propagated)
    BY DEF Turned
  <2>1. ASSUME NEW d \in Addr, Live(st2.mem, d), NEW i \in {1, 2}, NEW p \in DOMAIN st.trail,
               p <= propagated, st.trail[p] = -st2.mem[d].lits[i]
        PROVE  \E q \in DOMAIN st.trail : st.trail[q] \in ToSet(st2.mem[d].lits) /\ NotAbove(control, q, p)
    <3>1. Live(st.mem, d) /\ ToSet(st2.mem[d].lits) = ToSet(st.mem[d].lits)
      BY ONLY <1>3, <1>5, <1>b, <2>1 DEF Live
    <3>2. Guarded(st.trail, control, st.mem[d].lits, propagated)
      BY ONLY <2>0, <3>1, d \in Addr DEF AllGuarded
    <3>3. \E j \in {1, 2} : st2.mem[d].lits[i] = st.mem[d].lits[j]
      <4>1. CASE d # c
        BY ONLY <1>5, <4>1
      <4>2. CASE d = c /\ i = 1
        <5>1. st2.mem[d].lits = next
          BY ONLY <1>1, <1>5, <4>2
        <5>2. st2.mem[d].lits[i] = other /\ other \in FirstTwo(lits)
          BY ONLY <1>3, <4>2, <5>1
        <5> QED
          BY ONLY <1>b, <4>2, <5>2 DEF FirstTwo
      <4>3. CASE d = c /\ i = 2
        <5>1. st2.mem[d].lits = next
          BY ONLY <1>1, <1>5, <4>3
        <5>2. st.trail[p] = -lits[k]
          BY ONLY <1>3, <2>1, <4>3, <5>1
        <5>3. ~Contains(st.trail, -lits[k])
          BY ONLY <1>c DEF Value
        <5>4. st.trail \in Seq(Lit)
          BY ONLY <1>2 DEF Sound, Loop
        <5>5. DOMAIN st.trail = 1 .. Len(st.trail)
          BY ONLY <5>4, LenProperties
        <5> QED
          BY ONLY <5>2, <5>3, <5>5, p \in DOMAIN st.trail DEF Contains
      <4> QED
        BY <4>1, <4>2, <4>3
    <3> QED
      BY ONLY <2>1, <3>1, <3>2, <3>3 DEF Guarded
  <2>2. st2.trail = st.trail
    BY ONLY <1>5
  <2> QED
    BY ONLY <2>1, <2>2 DEF AllGuarded, Guarded
<1>12. Forced(st2.trail, control, st2.reason, mem)
  BY <1>5 DEF Turned
<1>13. st2.conflict = 0 =>
         /\ ~st2.stop
         /\ \A d \in Done(lit, n) : ~mem[d].garbage /\ lit \in FirstTwo(st2.mem[d].lits) =>
              ToSet(mem[d].lits) \cap ToSet(st2.trail) # {}
  <2>1. n \in Nat /\ \A i \in 1 .. n : watches[lit][i].clause \in Addr
    <3>1. Len(watches[lit]) \in Nat /\ \A i \in 1 .. Len(watches[lit]) : watches[lit][i].clause \in K
      BY LoopFacts
    <3>2. \A i \in 1 .. n : i \in 1 .. Len(watches[lit])
      BY <3>1
    <3> QED
      BY <1>7, <3>1, <3>2
  <2>2. \A d \in Done(lit, n) : d \in Addr
    BY ONLY <2>1 DEF Done
  <2>3. ASSUME NEW d \in Done(lit, n), lit \in FirstTwo(st2.mem[d].lits)
        PROVE  d \in Done(lit, n - 1) /\ st2.mem[d].lits = st.mem[d].lits
    <3>1. d \in Addr
      BY ONLY <2>2, <2>3
    <3>2. d # c
      BY ONLY <1>3, <1>5, <2>3, <3>1
    <3> QED
      BY ONLY <1>1, <1>5, <2>3, <3>1, <3>2
  <2> QED
    BY <1>5, <2>3 DEF Turned
<1> QED
  BY <1>6, <1>8, <1>9, <1>10, <1>11, <1>12, <1>13 DEF Turned


LEMMA KeptIs ==
  ASSUME NEW st \in Loop, NEW w
  PROVE  /\ Kept(st, w).kept = Append(st.kept, w) /\ Kept(st, w).mem = st.mem
         /\ Kept(st, w).watches = st.watches /\ Kept(st, w).trail = st.trail
         /\ Kept(st, w).reason = st.reason /\ Kept(st, w).conflict = st.conflict
         /\ Kept(st, w).stop = st.stop
BY DEF Kept, Loop

LEMMA ValueIs ==
  ASSUME NEW st, NEW l
  PROVE  /\ Value(st, l) \in {1, -1, 0}
         /\ Value(st, l) > 0 => l \in ToSet(st.trail)
         /\ Value(st, l) < 0 => -l \in ToSet(st.trail)
<1>1. \A s, e : Contains(s, e) <=> e \in ToSet(s)
  BY DEF Contains, ToSet
<1> QED
  BY <1>1 DEF Value

LEMMA TrueTrail ==
  ASSUME NEW lit, Looping(lit), NEW n, NEW st, Turned(st, lit, n)
  PROVE  -lit \in ToSet(st.trail)
<1>1. /\ trail \in Seq(Lit) /\ lit \in Lit /\ trail[propagated + 1] = -lit /\ propagated + 1 \in DOMAIN trail
  BY LoopFacts
<1>2. st.trail \in Seq(Lit) /\ Extends(st.trail)
  BY DEF Turned, Sound, Loop
<1>3. /\ DOMAIN st.trail = 1 .. Len(st.trail) /\ DOMAIN trail = 1 .. Len(trail)
      /\ Len(st.trail) \in Nat /\ Len(trail) \in Nat
  BY <1>1, <1>2, LenProperties
<1>4. propagated + 1 \in DOMAIN st.trail /\ st.trail[propagated + 1] = -lit
  BY <1>1, <1>2, <1>3 DEF Extends
<1> QED
  BY <1>4 DEF ToSet

LEMMA VisitLongTurn ==
  ASSUME NEW lit, Looping(lit), NEW n \in 1 .. Len(watches[lit]), NEW st, Turned(st, lit, n - 1),
         NEW w, w = watches[lit][n], ~mem[w.clause].garbage, st.conflict = 0,
         NEW st2 \in Sound, st2 = VisitLong(st, lit, w)
  PROVE  Turned(st2, lit, n)
<1>a. PICK c : c = w.clause
  OBVIOUS
<1>b. PICK lits : lits = st.mem[c].lits
  OBVIOUS
<1>c. PICK other : other = IF lits[1] = lit THEN lits[2] ELSE lits[1]
  OBVIOUS
<1>d. PICK rest : rest = {k \in 3 .. Len(lits) : Value(st, lits[k]) >= 0}
  OBVIOUS
<1>1. /\ w \in WatchRecord /\ c \in K /\ c \in Addr /\ w.blit \in Lit
      /\ w.size = Len(lits) /\ lits \in Seq(Lit) /\ Len(lits) \in Nat /\ Len(lits) >= 2
      /\ DOMAIN lits = 1 .. Len(lits) /\ IsInjective(lits)
      /\ c \notin Done(lit, n - 1) /\ Never(st.kept, c)
      /\ lits = mem[c].lits /\ lit \in FirstTwo(lits) /\ w.blit \in ToSet(lits) \ {lit}
  <2>1. Met(st, lit, n, w, c, lits)
    BY <1>a, <1>b, NextWatch
  <2>2. ~mem[c].garbage
    BY <1>a
  <2> QED
    BY ONLY <2>1, <2>2 DEF Met
<1>2. st \in Loop /\ lit \in Lit /\ -lit \in ToSet(st.trail) /\ ~st.stop
  <2>1. st \in Sound /\ ~st.stop
    BY DEF Turned
  <2>2. st \in Loop /\ lit \in Lit
    BY <2>1, LoopFacts DEF Sound
  <2> QED
    BY <2>1, <2>2, TrueTrail
<1>3. /\ other \in ToSet(lits) /\ other \in Lit /\ other # lit
      /\ \A j \in DOMAIN lits : j >= 3 => lits[j] # lit /\ lits[j] \in ToSet(lits) /\ lits[j] \in Lit
      /\ \A l \in ToSet(lits) : l = lit \/ l = other \/ \E j \in 3 .. Len(lits) : l = lits[j]
  <2>1. /\ 1 \in DOMAIN lits /\ 2 \in DOMAIN lits /\ 1 # 2 /\ \A j \in DOMAIN lits : lits[j] \in Lit
        /\ \A j \in DOMAIN lits : j = 1 \/ j = 2 \/ j \in 3 .. Len(lits)
    BY <1>1, ElementOfSeq, SMTT(60)
  <2>2. \A i, j \in DOMAIN lits : lits[i] = lits[j] => i = j
    BY <1>1 DEF IsInjective
  <2>3. lit = lits[1] \/ lit = lits[2]
    BY <1>1 DEF FirstTwo
  <2>4. \A j \in DOMAIN lits : j >= 3 => j # 1 /\ j # 2
    OBVIOUS
  <2>5. other # lit /\ ((lit = lits[1] /\ other = lits[2]) \/ (lit = lits[2] /\ other = lits[1]))
    BY <1>c, <2>1, <2>2, <2>3
  <2> QED
    BY <2>1, <2>2, <2>3, <2>4, <2>5, SMTT(60) DEF ToSet
<1>4. rest # {} => Min(rest) \in 3 .. Len(lits) /\ Value(st, lits[Min(rest)]) >= 0
  <2> SUFFICES ASSUME rest # {} PROVE Min(rest) \in rest
    BY <1>d
  <2>1. rest \in SUBSET Nat /\ rest # {}
    BY <1>d
  <2>2. \E x \in rest : \A y \in rest : x <= y
    BY ONLY <2>1, LeastOf
  <2> QED
    BY <2>2 DEF Min
<1>5. \A l : /\ Value(st, l) \in {1, -1, 0}
             /\ Value(st, l) > 0 => l \in ToSet(st.trail)
             /\ Value(st, l) < 0 => -l \in ToSet(st.trail)
  BY ONLY ValueIs, ZenonT(60)
<1>6. st2 =
        CASE Value(st, other) > 0 -> Kept(st, [w EXCEPT !.blit = other])
          [] Value(st, other) <= 0 /\ rest # {} ->
               IF Value(st, lits[Min(rest)]) > 0 THEN Kept(st, [w EXCEPT !.blit = lits[Min(rest)]])
               ELSE Rewatched(st, w, lits, Min(rest), lit, other)
          [] Value(st, other) = 0 /\ rest = {} -> Assigned(Kept(st, w), other, c)
          [] Value(st, other) < 0 /\ rest = {} -> Stopped([Kept(st, w) EXCEPT !.conflict = c])
  BY <1>a, <1>b, <1>c, <1>d, ZenonT(60) DEF VisitLong
<1>7. ASSUME NEW l \in ToSet(lits), l # lit, l \in Lit, l \in ToSet(st.trail), st2 = Kept(st, [w EXCEPT !.blit = l])
      PROVE  Turned(st2, lit, n)
  <2>1. PICK v : v = [w EXCEPT !.blit = l]
    OBVIOUS
  <2>2. v \in WatchRecord /\ v.clause = w.clause /\ v.size = w.size /\ v.blit = l
    BY <1>1, <1>7, <2>1, ZenonT(60) DEF WatchRecord
  <2>3. /\ st2.kept = Append(st.kept, v) /\ st2.mem = st.mem /\ st2.watches = st.watches
        /\ st2.trail = st.trail /\ st2.reason = st.reason /\ st2.conflict = 0 /\ ~st2.stop
    BY <1>2, <1>7, <2>1, KeptIs, SMTT(60)
  <2>4. ToSet(mem[v.clause].lits) \cap ToSet(st2.trail) # {} /\ v.blit \in ToSet(mem[v.clause].lits) \ {lit}
    BY <1>1, <1>7, <1>a, <2>2, <2>3, ZenonT(60)
  <2>5. Keeps(st, lit, w, st2, v)
    BY <2>2, <2>3, <2>4 DEF Keeps
  <2> QED
    BY <1>a, <2>5, KeepTurn
<1>8. CASE Value(st, other) > 0
  <2>1. st2 = Kept(st, [w EXCEPT !.blit = other])
    BY <1>5, <1>6, <1>8
  <2> QED
    BY <1>3, <1>5, <1>7, <1>8, <2>1
<1>9. CASE Value(st, other) <= 0 /\ rest # {}
  <2>0. PICK k : k = Min(rest)
    OBVIOUS
  <2>1. st2 = IF Value(st, lits[k]) > 0 THEN Kept(st, [w EXCEPT !.blit = lits[k]])
              ELSE Rewatched(st, w, lits, k, lit, other)
    BY <1>5, <1>6, <1>9, <2>0
  <2>2. k \in 3 .. Len(lits) /\ k \in DOMAIN lits /\ k >= 3 /\ Value(st, lits[k]) >= 0
    BY <1>1, <1>4, <1>9, <2>0
  <2>3. CASE Value(st, lits[k]) > 0
    <3>1. lits[k] \in ToSet(lits) /\ lits[k] # lit /\ lits[k] \in Lit /\ lits[k] \in ToSet(st.trail)
      BY <1>3, <1>5, <2>2, <2>3
    <3>2. st2 = Kept(st, [w EXCEPT !.blit = lits[k]])
      BY ONLY <2>1, <2>3
    <3> QED
      BY <1>7, <3>1, <3>2
  <2>4. CASE ~(Value(st, lits[k]) > 0)
    <3>1. Value(st, lits[k]) = 0 /\ st2 = Rewatched(st, w, lits, k, lit, other)
      BY <1>5, <2>1, <2>2, <2>4
    <3> QED
      <4>1. Replaces(st, lit, w, k, other, st2)
        BY <1>a, <1>b, <1>c, <2>2, <3>1, ZenonT(60) DEF Replaces
      <4> QED
        BY <4>1, RewatchTurn, ZenonT(60)
  <2> QED
    BY <2>3, <2>4
<1>10. CASE Value(st, other) = 0 /\ rest = {}
  <2>1. st2 = Assigned(Kept(st, w), other, c)
    BY <1>5, <1>6, <1>10
  <2>2. /\ st2.kept = Append(st.kept, w) /\ st2.mem = st.mem /\ st2.watches = st.watches
        /\ st2.trail = Append(st.trail, other) /\ st2.reason = [st.reason EXCEPT ![Idx(other)] = c]
        /\ st2.conflict = 0 /\ ~st2.stop
    BY <1>2, <2>1 DEF Kept, Assigned, Loop
  <2>3. \A l \in ToSet(lits) \ {other} : -l \in ToSet(st.trail)
    <3> SUFFICES ASSUME NEW l \in ToSet(lits), l # other, l # lit PROVE -l \in ToSet(st.trail)
      BY <1>2
    <3>1. PICK j \in 3 .. Len(lits) : l = lits[j]
      BY <1>3
    <3>2. ~(Value(st, lits[j]) >= 0)
      BY <1>10, <1>d
    <3> QED
      BY <1>5, <3>1, <3>2
  <2>4. \E l \in Lit : Propagates(st, st2, l, w.clause)
    <3>1. other \in Lit /\ other \in ToSet(lits) /\ lits = mem[w.clause].lits
      BY ONLY <1>1, <1>3, <1>a, ZenonT(60)
    <3>2. Propagates(st, st2, other, w.clause)
      BY <1>10, <1>a, <2>2, <2>3, <3>1, ZenonT(60) DEF Propagates
    <3> QED
      BY ONLY <3>1, <3>2
  <2>5. ToSet(mem[w.clause].lits) \cap ToSet(st2.trail) # {}
    <3>1. other \in ToSet(st2.trail)
      BY <1>2, <1>3, <2>2, AppendGrown, SMTT(60) DEF Loop
    <3> QED
      BY <1>1, <1>3, <1>a, <3>1
  <2>6. w \in WatchRecord /\ w.blit \in ToSet(mem[w.clause].lits) \ {lit}
    BY <1>1, <1>a, ZenonT(60)
  <2>7. Keeps(st, lit, w, st2, w)
    BY <1>3, <2>2, <2>4, <2>5, <2>6 DEF Keeps
  <2> QED
    BY <1>a, <2>7, KeepTurn
<1>11. CASE Value(st, other) < 0 /\ rest = {}
  <2>1. st2 = Stopped([Kept(st, w) EXCEPT !.conflict = c])
    BY <1>5, <1>6, <1>11
  <2>2. /\ st2.kept = Append(st.kept, w) /\ st2.mem = st.mem /\ st2.watches = st.watches
        /\ st2.trail = st.trail /\ st2.reason = st.reason /\ st2.conflict = c
    BY <1>2, <2>1, ZenonT(60) DEF Kept, Stopped, Loop
  <2>3. st2.conflict # 0 /\ w \in WatchRecord /\ w.blit \in ToSet(mem[w.clause].lits) \ {lit}
    BY <1>1, <1>a, <2>2 DEF Addr
  <2>4. Keeps(st, lit, w, st2, w)
    BY <2>2, <2>3 DEF Keeps
  <2> QED
    BY <1>a, <2>4, KeepTurn
<1> QED
  BY <1>5, <1>8, <1>9, <1>10, <1>11

LEMMA VisitTurn ==
  ASSUME NEW lit, Looping(lit), NEW n \in 1 .. Len(watches[lit]), NEW st, Turned(st, lit, n - 1),
         NEW st2, st2 = Visit(lit, st, watches[lit][n])
  PROVE  Turned(st2, lit, n)
<1>a. PICK w : w = watches[lit][n]
  OBVIOUS
<1>b. PICK c : c = w.clause
  OBVIOUS
<1>c. PICK lits : lits = st.mem[c].lits
  OBVIOUS
<1>1. /\ w \in WatchRecord /\ c \in K /\ c \in Addr /\ w.blit \in Lit
      /\ w.size = Len(lits) /\ IsInjective(lits) /\ DOMAIN lits = 1 .. Len(lits)
      /\ w.size = 2 => ~mem[c].garbage
      /\ ~mem[c].garbage => /\ lits = mem[c].lits /\ lit \in FirstTwo(lits)
                            /\ w.blit \in ToSet(lits) \ {lit}
  <2>1. Met(st, lit, n, w, c, lits)
    BY <1>a, <1>b, <1>c, NextWatch
  <2> QED
    BY ONLY <2>1 DEF Met
<1>2. st2 \in Sound /\ st \in Loop /\ st.trail \in Seq(Lit)
  <2>1. st \in Sound /\ trail \in Seq(Lit) /\ lit \in Lit
    BY LoopFacts DEF Turned
  <2> QED
    BY <1>1, <1>a, <1>b, <2>1, VisitSound DEF Sound, Loop
<1>3. /\ Value(st, w.blit) \in {1, -1, 0}
      /\ Value(st, w.blit) > 0 => w.blit \in ToSet(st.trail)
  BY ValueIs
<1>4. st.conflict = 0 => ~st.stop
  BY DEF Turned
<1>5. st2 = IF st.stop \/ Value(st, w.blit) > 0 THEN Kept(st, w)
            ELSE IF w.size = 2 THEN VisitBinary(st, w)
            ELSE IF st.conflict # 0 THEN Stopped(Kept(st, w))
            ELSE IF st.mem[w.clause].garbage THEN st
            ELSE VisitLong(st, lit, w)
  BY <1>a DEF Visit
<1>6. ~mem[w.clause].garbage => w.blit \in ToSet(mem[w.clause].lits) \ {lit}
  BY <1>1, <1>b
<1>7. CASE st.stop \/ Value(st, w.blit) > 0
  <2>1. st2 = Kept(st, w)
    BY <1>5, <1>7
  <2>2. /\ st2.kept = Append(st.kept, w) /\ st2.mem = st.mem /\ st2.watches = st.watches
        /\ st2.trail = st.trail /\ st2.reason = st.reason /\ st2.conflict = st.conflict
        /\ st2.stop = st.stop
    BY <1>2, <2>1, KeptIs
  <2>3. st2.conflict = 0 =>
          /\ st.conflict = 0 /\ ~st2.stop
          /\ ~mem[w.clause].garbage => ToSet(mem[w.clause].lits) \cap ToSet(st2.trail) # {}
    BY <1>3, <1>4, <1>6, <1>7, <2>2
  <2>4. Keeps(st, lit, w, st2, w)
    BY <1>1, <1>2, <1>6, <1>a, <2>2, <2>3 DEF Keeps
  <2> QED
    BY <1>1, <1>2, <1>a, <2>4, KeepTurn
<1>8. CASE ~(st.stop \/ Value(st, w.blit) > 0) /\ w.size = 2
  <2>1. st2 = VisitBinary(st, w) /\ ~mem[w.clause].garbage
    BY <1>1, <1>5, <1>8, <1>b
  <2>2. CASE Value(st, w.blit) < 0
    <3>1. st2 = [Kept(st, w) EXCEPT !.conflict = c]
      BY <1>b, <2>1, <2>2 DEF VisitBinary
    <3>2. /\ st2.kept = Append(st.kept, w) /\ st2.mem = st.mem /\ st2.watches = st.watches
          /\ st2.trail = st.trail /\ st2.reason = st.reason /\ st2.conflict # 0
      BY <1>1, <1>2, <3>1, SMTT(60) DEF Kept, Loop, Addr
    <3>3. Keeps(st, lit, w, st2, w)
      BY <1>1, <1>2, <1>6, <1>a, <3>2 DEF Keeps
    <3> QED
      BY <1>1, <1>2, <1>a, <3>3, KeepTurn
  <2>3. CASE ~(Value(st, w.blit) < 0)
    <3>1. st2 = Assigned(Kept(st, w), w.blit, c) /\ Value(st, w.blit) = 0
      BY <1>3, <1>8, <1>b, <2>1, <2>3 DEF VisitBinary
    <3>2. /\ st2.kept = Append(st.kept, w) /\ st2.mem = st.mem /\ st2.watches = st.watches
          /\ st2.trail = Append(st.trail, w.blit) /\ st2.reason = [st.reason EXCEPT ![Idx(w.blit)] = c]
          /\ st2.conflict = st.conflict /\ st2.stop = st.stop
      BY <1>2, <3>1 DEF Kept, Assigned, Loop
    <3>3. \A l \in ToSet(lits) \ {w.blit} : l = lit
      <4>1. DOMAIN lits = {1, 2}
        BY <1>1, <1>8
      <4>2. \A l \in ToSet(lits) : l = lits[1] \/ l = lits[2]
        BY <4>1 DEF ToSet
      <4>3. lit \in {lits[1], lits[2]} /\ w.blit \in ToSet(lits) \ {lit}
        BY <1>1, <1>8 DEF FirstTwo
      <4> QED
        BY <4>2, <4>3
    <3>4. -lit \in ToSet(st.trail)
      BY TrueTrail
    <3>5. \E l \in Lit : Propagates(st, st2, l, w.clause)
      <4>1. Propagates(st, st2, w.blit, w.clause)
        BY <1>1, <1>8, <1>b, <3>1, <3>2, <3>3, <3>4 DEF Propagates
      <4> QED
        BY ONLY <1>1, <4>1
    <3>6. ToSet(mem[w.clause].lits) \cap ToSet(st2.trail) # {}
      <4>1. w.blit \in ToSet(st2.trail)
        BY <1>1, <1>2, <3>2, AppendGrown, SMTT(60)
      <4> QED
        BY <1>6, <2>1, <4>1
    <3>7. st2.conflict = 0 =>
            /\ st.conflict = 0 /\ ~st2.stop
            /\ ~mem[w.clause].garbage => ToSet(mem[w.clause].lits) \cap ToSet(st2.trail) # {}
      BY <1>8, <3>2, <3>6, ZenonT(60)
    <3>8. Keeps(st, lit, w, st2, w)
      BY <1>1, <1>2, <1>6, <1>a, <3>2, <3>5, <3>7 DEF Keeps
    <3> QED
      BY <1>1, <1>2, <1>a, <3>8, KeepTurn
  <2> QED
    BY <2>2, <2>3
<1>9. CASE ~(st.stop \/ Value(st, w.blit) > 0) /\ w.size # 2 /\ st.conflict # 0
  <2>1. st2 = Stopped(Kept(st, w))
    BY <1>5, <1>9
  <2>2. /\ st2.kept = Append(st.kept, w) /\ st2.mem = st.mem /\ st2.watches = st.watches
        /\ st2.trail = st.trail /\ st2.reason = st.reason /\ st2.conflict # 0
    BY <1>2, <1>9, <2>1 DEF Kept, Stopped, Loop
  <2>3. Keeps(st, lit, w, st2, w)
    BY <1>1, <1>2, <1>6, <1>a, <2>2 DEF Keeps
  <2> QED
    BY <1>1, <1>2, <1>a, <2>3, KeepTurn
<1>10. CASE ~(st.stop \/ Value(st, w.blit) > 0) /\ w.size # 2 /\ st.conflict = 0
  <2>1. st.mem[w.clause].garbage = mem[w.clause].garbage
    BY <1>1, <1>b DEF Turned, Alike
  <2>2. CASE mem[w.clause].garbage
    <3>1. st2 = st
      BY <1>5, <1>10, <2>1, <2>2
    <3> QED
      BY <1>a, <2>2, <3>1, DropTurn
  <2>3. CASE ~mem[w.clause].garbage
    <3>1. st2 = VisitLong(st, lit, w)
      BY <1>5, <1>10, <2>1, <2>3
    <3> QED
      BY <1>2, <1>10, <1>a, <2>3, <3>1, VisitLongTurn
  <2> QED
    BY <2>2, <2>3
<1> QED
  BY <1>7, <1>8, <1>9, <1>10

-----------------------------------------------------------------------------
\* The invariant of the next state, by the values of the variables
LEMMA NextHolds ==
  ASSUME NoRepeats(mem'), Len(control') > 0 => control'[Len(control')] <= propagated',
         pc' # "search" => propagated' = Len(trail'),
         Forced(trail', control', reason', mem'),
         AllGuarded(trail', control', mem', Visited(conflict', control', propagated')),
         AllFit(watches', mem', IF pc' \in {"reasons", "delete"} THEN NewStore' ELSE K'),
         pc' \notin {"protect", "mark", "copy", "watches"} => AllBlock(watches', mem'),
         GarbageIsLong', NoneIsGarbage', CopiesAlike'
  PROVE  PInv'
<1>1. NoRepeats(mem)' /\ LevelsSeen' /\ (pc # "search" => propagated = Len(trail))'
  BY DEF NoRepeats, LevelsSeen, Level
<1>2. Forced(trail, control, reason, mem)'
  BY DEF Forced, Forces, Idx, ToSet
<1>3. AllGuarded(trail, control, mem, Visited(conflict, control, propagated))'
  BY SMTT(60) DEF AllGuarded, Guarded, NotAbove, Visited, Live, ToSet
<1>4. AllFit(watches, mem, IF Relocated THEN NewStore ELSE K)'
  BY SMTT(60) DEF AllFit, Fits, Once, Never, FirstTwo, Relocated
<1>5. (pc \notin {"protect", "mark", "copy", "watches"} => AllBlock(watches, mem))'
  BY DEF AllBlock, Blocks, ToSet
<1> QED
  BY <1>1, <1>2, <1>3, <1>4, <1>5 DEF PInv

LEMMA StartTurned ==
  ASSUME NEW lit, Looping(lit)
  PROVE  Turned(Start, lit, 0)
<1>1. /\ Start.kept = <<>> /\ Start.mem = mem /\ Start.watches = watches /\ Start.trail = trail
      /\ Start.reason = reason /\ Start.conflict = 0 /\ Start.stop = FALSE
  BY DEF Start
<1>2. Start \in Sound
  <2>1. TypeOK /\ AtRest /\ TrailHolds /\ pc = "search" /\ lit \in Lit
    BY LoopFacts DEF Looping
  <2>2. Len(watches[lit]) \in Nat
    BY LoopFacts
  <2> QED
    BY <2>1, <2>2, VisitsAre
<1>3. Alike(mem, mem) /\ Done(lit, 0) = {}
  BY DEF Alike, Done
<1>4. Blocks(<<>>, mem, lit) /\ \A c : Never(<<>>, c)
  BY DEF Blocks, Never
<1>5. \A c \in K : ~mem[c].garbage => \A l \in Lit : Fits(watches[l], c, l \in FirstTwo(mem[c].lits))
  BY LoopFacts DEF AllFit
<1> QED
  BY <1>1, <1>2, <1>3, <1>4, <1>5, LoopFacts DEF Turned

LEMMA AllTurned ==
  ASSUME NEW lit, Looping(lit)
  PROVE  Turned(Visits(lit)[Len(watches[lit])], lit, Len(watches[lit]))
<1> DEFINE N == Len(watches[lit])
<1> DEFINE T == {n \in Nat : n <= N => Turned(Visits(lit)[n], lit, n)}
<1>1. /\ N \in Nat /\ Visits(lit)[0] = Start
      /\ \A n \in 1 .. N : Visits(lit)[n] = Visit(lit, Visits(lit)[n - 1], watches[lit][n])
  <2>1. TypeOK /\ AtRest /\ TrailHolds /\ pc = "search" /\ lit \in Lit /\ N \in Nat
    BY LoopFacts DEF Looping
  <2> QED
    BY <2>1, VisitsAre
<1>2. 0 \in T
  BY <1>1, StartTurned
<1>3. ASSUME NEW n \in T PROVE n + 1 \in T
  <2> SUFFICES ASSUME n + 1 <= N PROVE Turned(Visits(lit)[n + 1], lit, n + 1)
    BY <1>3
  <2>1. n \in Nat /\ n + 1 \in 1 .. N /\ (n + 1) - 1 = n /\ n <= N
    BY <1>1, <1>3
  <2>2. Turned(Visits(lit)[n], lit, (n + 1) - 1)
    BY <1>3, <2>1
  <2>3. Visits(lit)[n + 1] = Visit(lit, Visits(lit)[n], watches[lit][n + 1])
    BY <1>1, <2>1
  <2> QED
    BY <2>1, <2>2, <2>3, VisitTurn
<1> HIDE DEF T
<1>4. T = Nat
  BY <1>2, <1>3, InductionOn DEF T
<1> QED
  BY <1>1, <1>4 DEF T

LEMMA PropagateLiteralWatched ==
  ASSUME IInv, PInv, PropagateLiteral
  PROVE  PInv'
<1>a. PICK lit : lit = -trail[propagated + 1]
  OBVIOUS
<1>b. PICK N : N = Len(watches[lit])
  OBVIOUS
<1>c. PICK st : st = Visits(lit)[N]
  OBVIOUS
<1>1. Looping(lit)
  BY <1>a DEF Looping, PropagateLiteral
<1>2. Turned(st, lit, N)
  BY <1>1, <1>b, <1>c, AllTurned
<1>3. /\ mem' = st.mem /\ trail' = st.trail /\ reason' = st.reason /\ conflict' = st.conflict
      /\ watches' = [st.watches EXCEPT ![lit] = st.kept] /\ propagated' = propagated + 1
      /\ clauses' = clauses /\ control' = control /\ pc' = "search" /\ pc = "search"
  BY <1>a, <1>b, <1>c DEF PropagateLiteral
<1>4. /\ TypeOK /\ TrailHolds /\ lit \in Lit /\ propagated \in Nat
      /\ AllFit(watches, mem, K) /\ \A c \in K : mem[c].garbage => Len(mem[c].lits) > 2
      /\ \A c \in Addr : c \notin K => Len(mem[c].lits) = 0
      /\ trail[propagated + 1] = -lit /\ propagated + 1 \in DOMAIN trail /\ trail \in Seq(Lit)
      /\ DOMAIN watches[lit] = 1 .. N
  BY <1>1, <1>b, LoopFacts
<1>5. /\ st \in Sound /\ Alike(mem, st.mem) /\ NoRepeats(st.mem) /\ st.trail \in Seq(Lit) /\ Extends(st.trail)
      /\ st.watches \in [Lit -> Seq(WatchRecord)] /\ st.mem \in [Addr -> ClauseRecord]
      /\ NoneTwice(st.trail)
  BY <1>2 DEF Turned, Sound, Loop
<1>6. \A l \in Lit : watches'[l] = IF l = lit THEN st.kept ELSE st.watches[l]
  BY <1>3, <1>4, <1>5
<1>7. ASSUME NEW c \in K, ~mem[c].garbage, c \notin Done(lit, N)
      PROVE  lit \notin FirstTwo(st.mem[c].lits) /\ Never(st.kept, c)
  <2>1. Never(st.kept, c) /\ st.mem[c].lits = mem[c].lits
    BY <1>2, <1>7 DEF Turned
  <2>2. Fits(watches[lit], c, lit \in FirstTwo(mem[c].lits))
    BY <1>4, <1>7 DEF AllFit
  <2>3. ~Once(watches[lit], c)
    BY <1>4, <1>7 DEF Once, Done
  <2> QED
    BY <2>1, <2>2, <2>3 DEF Fits
<1>8. K' = K /\ K \subseteq Addr /\ \A c \in Addr : Live(st.mem, c) => c \in K /\ ~mem[c].garbage
  <2>1. \A c \in Addr : Len(st.mem[c].lits) = Len(mem[c].lits) /\ st.mem[c].garbage = mem[c].garbage
    BY <1>5 DEF Alike
  <2> QED
    BY <1>3, <1>4, <2>1, StoreFacts, SMTT(60) DEF K, Live
<1>9. AllFit(watches', mem', K)
  <2> SUFFICES ASSUME NEW c \in K, ~st.mem[c].garbage, NEW l \in Lit
               PROVE  Fits(watches'[l], c, l \in FirstTwo(st.mem[c].lits))
    BY <1>3 DEF AllFit
  <2>1. ~mem[c].garbage
    BY <1>5, <1>8 DEF Alike
  <2>2. CASE l # lit
    BY <1>2, <1>6, <2>1, <2>2 DEF Turned
  <2>3. CASE l = lit /\ c \in Done(lit, N)
    BY <1>2, <1>6, <2>1, <2>3 DEF Turned
  <2>4. CASE l = lit /\ c \notin Done(lit, N)
    BY <1>6, <1>7, <2>1, <2>4 DEF Fits
  <2> QED
    BY <2>2, <2>3, <2>4
<1>10. AllBlock(watches', mem')
  <2>1. AllBlock(st.watches, mem) /\ Blocks(st.kept, mem, lit)
    BY <1>2 DEF Turned
  <2>2. AllInto(st.watches, K) /\ Into(st.kept, K)
    BY <1>5 DEF Sound
  <2> SUFFICES ASSUME NEW l \in Lit PROVE Blocks(watches'[l], st.mem, l)
    BY <1>3 DEF AllBlock
  <2>3. Blocks(watches'[l], mem, l)
    BY <1>6, <2>1 DEF AllBlock
  <2>4. \A i \in DOMAIN watches'[l] : watches'[l][i].clause \in Addr
    BY <1>6, <1>8, <2>2 DEF AllInto, Into
  <2> QED
    BY <1>5, <2>3, <2>4, BlocksAlike
<1>11. Forced(trail', control', reason', mem')
  <2>1. Forced(st.trail, control, st.reason, mem)
    BY <1>2 DEF Turned
  <2>2. st.reason \in [Var -> Addr \cup {0}]
    BY <1>5 DEF Sound, Loop
  <2> QED
    BY <1>3, <1>5, <2>1, <2>2, ForcedAlike
<1>12. /\ DOMAIN st.trail = 1 .. Len(st.trail) /\ DOMAIN trail = 1 .. Len(trail)
       /\ Len(st.trail) \in Nat /\ Len(trail) \in Nat /\ Len(control) \in Nat
       /\ DOMAIN control = 1 .. Len(control) /\ \A j \in DOMAIN control : control[j] \in Nat
       /\ Len(control) > 0 => control[Len(control)] <= propagated
       /\ \A j \in DOMAIN control : control[j] <= propagated
  <2>1. /\ DOMAIN st.trail = 1 .. Len(st.trail) /\ DOMAIN trail = 1 .. Len(trail)
        /\ Len(st.trail) \in Nat /\ Len(trail) \in Nat /\ Len(control) \in Nat
        /\ DOMAIN control = 1 .. Len(control) /\ \A j \in DOMAIN control : control[j] \in Nat
    BY <1>4, <1>5, StoreFacts, LenProperties, SMTT(60)
  <2>2. Len(control) > 0 => control[Len(control)] <= propagated
    BY DEF PInv, LevelsSeen, Level
  <2>3. \A i, j \in DOMAIN control : i <= j => control[i] <= control[j]
    BY <1>4 DEF TrailHolds
  <2>4. ASSUME NEW j \in DOMAIN control PROVE control[j] <= propagated
    <3>1. Len(control) \in DOMAIN control /\ j <= Len(control) /\ Len(control) > 0
      BY <2>1
    <3>2. control[j] <= control[Len(control)] /\ control[j] \in Nat /\ control[Len(control)] \in Nat
      BY <2>1, <2>3, <3>1
    <3> QED
      BY <1>4, <2>2, <3>1, <3>2
  <2> QED
    BY <2>1, <2>2, <2>4
<1>13. AllGuarded(trail', control', mem', Visited(conflict', control', propagated'))
  <2>0. AllGuarded(st.trail, control, st.mem, propagated)
    BY <1>2 DEF Turned
  <2>1. CASE st.conflict # 0
    <3>1. Visited(st.conflict, control, propagated + 1) \in Int
          /\ Visited(st.conflict, control, propagated + 1) <= propagated
      BY <1>4, <1>12, <2>1 DEF Visited
    <3>2. DOMAIN st.trail \subseteq Int
      BY <1>12
    <3> QED
      BY <1>3, <1>4, <2>0, <3>1, <3>2, LessGuarded
  <2>2. CASE st.conflict = 0
    <3> SUFFICES ASSUME NEW c \in Addr, Live(st.mem, c), NEW i \in {1, 2}, NEW p \in DOMAIN st.trail,
                        p <= propagated + 1, st.trail[p] = -st.mem[c].lits[i]
                 PROVE  \E q \in DOMAIN st.trail : st.trail[q] \in ToSet(st.mem[c].lits) /\ NotAbove(control, q, p)
      BY <1>3, <2>2 DEF AllGuarded, Guarded, Visited
    <3>1. CASE p <= propagated
      BY <2>0, <3>1 DEF AllGuarded, Guarded
    <3>2. CASE p = propagated + 1
      <4>1. st.trail[p] = -lit
        BY <1>4, <1>5, <3>2 DEF Extends
      <4>2. st.mem[c].lits[i] = lit
        <5>1. st.mem[c].lits \in Seq(Lit) /\ Len(st.mem[c].lits) >= 2
          BY <1>5 DEF Live, ClauseRecord
        <5>2. st.mem[c].lits[i] \in Lit
          <6>1. i \in 1 .. Len(st.mem[c].lits)
            BY <5>1, LenProperties
          <6> QED
            BY <5>1, <6>1, ElementOfSeq
        <5>3. st.mem[c].lits[i] \in Int /\ lit \in Int /\ -st.mem[c].lits[i] = -lit
          BY <1>4, <4>1, <5>2, LitFacts
        <5> QED
          BY ONLY <5>3
      <4>3. lit \in FirstTwo(st.mem[c].lits)
        BY <4>2 DEF FirstTwo
      <4>4. c \in K /\ ~mem[c].garbage /\ c \in Done(lit, N)
        BY <1>7, <1>8, <4>3
      <4>5. ToSet(mem[c].lits) \cap ToSet(st.trail) # {}
        BY <1>2, <2>2, <4>3, <4>4 DEF Turned
      <4>6. PICK q \in DOMAIN st.trail : st.trail[q] \in ToSet(mem[c].lits)
        BY <4>5 DEF ToSet
      <4>7. NotAbove(control, q, p)
        <5> SUFFICES ASSUME NEW j \in DOMAIN control PROVE control[j] < p
          BY DEF NotAbove
        <5> QED
          BY <1>4, <1>12, <3>2
      <4> QED
        BY <1>5, <4>6, <4>7 DEF Alike
    <3> QED
      BY <1>4, <1>12, <3>1, <3>2
  <2> QED
    BY <2>1, <2>2
<1>14. NoRepeats(mem') /\ (Len(control') > 0 => control'[Len(control')] <= propagated')
  <2>1. Len(control) > 0 => Len(control) \in DOMAIN control
    BY <1>12
  <2>2. Len(control) > 0 => control[Len(control)] <= propagated + 1
    BY <1>4, <1>12, <2>1
  <2> QED
    BY <1>3, <1>5, <2>2
<1>15. GarbageIsLong' /\ NoneIsGarbage' /\ CopiesAlike'
  BY <1>3, <1>4, <1>5, <1>8 DEF GarbageIsLong, NoneIsGarbage, CopiesAlike, Alike
<1> QED
  BY <1>3, <1>8, <1>9, <1>10, <1>11, <1>13, <1>14, <1>15, NextHolds

-----------------------------------------------------------------------------
\* Decisions
\* A clause as it is during search
LEMMA SearchFacts ==
  ASSUME IInv, PInv, pc = "search"
  PROVE  /\ TypeOK /\ TrailHolds /\ AtRest /\ NoRepeats(mem) /\ trail \in Seq(Lit) /\ NoneTwice(trail)
         /\ AllFit(watches, mem, K) /\ AllBlock(watches, mem)
         /\ Forced(trail, control, reason, mem)
         /\ AllGuarded(trail, control, mem, Visited(conflict, control, propagated))
         /\ \A c \in K : mem[c].garbage => Len(mem[c].lits) > 2
         /\ Level = Len(control) /\ Level \in Nat /\ DOMAIN control = 1 .. Level
         /\ \A j \in 1 .. Level : control[j] \in Nat /\ control[j] <= Len(trail)
         /\ Len(trail) \in Nat /\ DOMAIN trail = 1 .. Len(trail) /\ propagated \in Nat
         /\ \A n \in 1 .. Len(trail) : trail[n] \in Lit /\ Idx(trail[n]) \in Var
         /\ reason \in [Var -> Addr \cup {0}]
<1>1. TypeOK /\ TrailHolds /\ AtRest
  BY DEF IInv
<1>2. /\ trail \in Seq(Lit) /\ NoneTwice(trail) /\ reason \in [Var -> Addr \cup {0}] /\ propagated \in Nat
  <2>1. Len(trail) \in Nat
    BY <1>1, StoreFacts
  <2> QED
    BY <1>1, <2>1 DEF TypeOK, TrailHolds
<1>3. /\ NoRepeats(mem) /\ AllFit(watches, mem, K) /\ AllBlock(watches, mem)
      /\ Forced(trail, control, reason, mem)
      /\ AllGuarded(trail, control, mem, Visited(conflict, control, propagated))
      /\ \A c \in K : mem[c].garbage => Len(mem[c].lits) > 2
  BY DEF PInv, Relocated, GarbageIsLong
<1>4. /\ Level = Len(control) /\ Level \in Nat /\ DOMAIN control = 1 .. Level
      /\ \A j \in 1 .. Level : control[j] \in Nat
      /\ Len(trail) \in Nat /\ DOMAIN trail = 1 .. Len(trail)
      /\ \A n \in 1 .. Len(trail) : trail[n] \in Lit
  BY <1>1, StoreFacts
<1>5. \A j \in 1 .. Level : control[j] <= Len(trail)
  BY <1>1, <1>4 DEF TrailHolds
<1>6. \A n \in 1 .. Len(trail) : Idx(trail[n]) \in Var
  BY <1>4, LitFacts
<1> QED
  BY <1>1, <1>2, <1>3, <1>4, <1>5, <1>6

\* Where the store and the watches stay as they are
LEMMA SameWatched ==
  ASSUME IInv, PInv, pc = "search", pc' = "search", mem' = mem, clauses' = clauses, watches' = watches,
         Len(control') > 0 => control'[Len(control')] <= propagated',
         Forced(trail', control', reason', mem),
         AllGuarded(trail', control', mem, Visited(conflict', control', propagated'))
  PROVE  PInv'
<1>1. /\ NoRepeats(mem) /\ AllFit(watches, mem, K) /\ AllBlock(watches, mem)
      /\ \A c \in K : mem[c].garbage => Len(mem[c].lits) > 2
  BY SearchFacts
<1>2. K' = K
  BY DEF K
<1>3. GarbageIsLong' /\ NoneIsGarbage' /\ CopiesAlike'
  BY <1>1, <1>2 DEF GarbageIsLong, NoneIsGarbage, CopiesAlike
<1>4. NoRepeats(mem') /\ AllFit(watches', mem', K') /\ AllBlock(watches', mem')
  BY ONLY <1>1, <1>2, mem' = mem, watches' = watches
<1> QED
  BY <1>3, <1>4, NextHolds

LEMMA DecideWatched ==
  ASSUME IInv, PInv, NEW l \in Lit, Decide(l)
  PROVE  PInv'
<1>1. /\ pc = "search" /\ pc' = "search" /\ conflict = 0 /\ conflict' = 0
      /\ ~Contains(trail, l) /\ ~Contains(trail, -l) /\ propagated = Len(trail) /\ propagated' = Len(trail)
      /\ control' = Append(control, Len(trail)) /\ trail' = Append(trail, l)
      /\ reason' = [reason EXCEPT ![Idx(l)] = 0]
      /\ mem' = mem /\ clauses' = clauses /\ watches' = watches
  BY DEF Decide, Quiet, store
<1>2. /\ TypeOK /\ trail \in Seq(Lit) /\ NoneTwice(trail) /\ Forced(trail, control, reason, mem)
      /\ AllGuarded(trail, control, mem, propagated)
      /\ Level = Len(control) /\ Level \in Nat /\ DOMAIN control = 1 .. Level
      /\ \A j \in 1 .. Level : control[j] \in Nat /\ control[j] <= Len(trail)
      /\ Len(trail) \in Nat /\ DOMAIN trail = 1 .. Len(trail)
      /\ \A n \in 1 .. Len(trail) : trail[n] \in Lit /\ Idx(trail[n]) \in Var
      /\ reason \in [Var -> Addr \cup {0}] /\ Idx(l) \in Var
  BY <1>1, SearchFacts, LitFacts DEF Visited
<1>3. /\ Len(control') = Level + 1 /\ control'[Level + 1] = Len(trail) /\ DOMAIN control' = 1 .. Level + 1
      /\ \A j \in 1 .. Level : control'[j] = control[j]
  <2>1. control \in Seq(Nat)
    BY <1>2 DEF TypeOK
  <2> QED
    BY <1>1, <1>2, <2>1, AppendProperties, LenProperties
<1>4. /\ Grown(trail, trail') /\ DOMAIN trail' = DOMAIN trail \cup {Len(trail) + 1}
      /\ \A n \in 1 .. Len(trail) : trail'[n] = trail[n] /\ Idx(trail[n]) # Idx(l)
      /\ trail'[Len(trail) + 1] = l
  <2>1. /\ Grown(trail, Append(trail, l)) /\ Append(trail, l)[Len(trail) + 1] = l
        /\ DOMAIN Append(trail, l) = DOMAIN trail \cup {Len(trail) + 1}
    BY <1>2, AppendGrown
  <2>2. \A n \in 1 .. Len(trail) : Append(trail, l)[n] = trail[n] /\ Idx(trail[n]) # Idx(l)
    BY <1>1, <1>2, AppendNoneTwice
  <2> QED
    BY <1>1, <2>1, <2>2
<1>5. Forced(trail', control', reason', mem)
  <2> SUFFICES ASSUME NEW n \in DOMAIN trail', n > control'[1], reason'[Idx(trail'[n])] # 0
               PROVE  ~mem[reason'[Idx(trail'[n])]].garbage /\ Forces(trail', n, mem[reason'[Idx(trail'[n])]].lits)
    BY DEF Forced
  <2>1. CASE n = Len(trail) + 1
    BY <1>1, <1>2, <1>4, <2>1
  <2>2. CASE n \in DOMAIN trail
    <3>1. Len(control) > 0 /\ control'[1] = control[1]
      BY <1>2, <1>3, <2>2
    <3>2. reason'[Idx(trail'[n])] = reason[Idx(trail[n])]
      BY <1>1, <1>2, <1>4, <2>2
    <3>3. ~mem[reason[Idx(trail[n])]].garbage /\ Forces(trail, n, mem[reason[Idx(trail[n])]].lits)
      BY <1>2, <2>2, <3>1, <3>2 DEF Forced
    <3>4. 1 .. n \subseteq DOMAIN trail
      BY <1>2, <2>2
    <3> QED
      BY <1>4, <2>2, <3>2, <3>3, <3>4, GrownForces
  <2> QED
    BY <1>4, <2>1, <2>2
<1>6. AllGuarded(trail', control', mem, propagated)
  <2>1. ASSUME NEW q \in DOMAIN trail, NEW p \in DOMAIN trail, NotAbove(control, q, p)
        PROVE  NotAbove(control', q, p)
    <3> SUFFICES ASSUME NEW j \in 1 .. Level + 1, control'[j] < q PROVE control'[j] < p
      BY <1>3 DEF NotAbove
    <3>1. j # Level + 1
      BY <1>2, <1>3
    <3>2. j \in 1 .. Level
      BY <1>2, <3>1
    <3> QED
      BY <1>2, <1>3, <2>1, <3>2 DEF NotAbove
  <2>2. AllGuarded(trail, control', mem, propagated)
    BY <1>2, <2>1 DEF AllGuarded, Guarded
  <2>3. \A p \in DOMAIN trail' : p <= propagated => p \in DOMAIN trail
    BY <1>1, <1>2, <1>4
  <2> QED
    BY <1>4, <2>2, <2>3, GrownGuarded
<1>7. Visited(conflict', control', propagated') = propagated
      /\ (Len(control') > 0 => control'[Len(control')] <= propagated')
  BY <1>1, <1>2, <1>3 DEF Visited
<1> QED
  BY <1>1, <1>5, <1>6, <1>7, SameWatched

-----------------------------------------------------------------------------
\* Back jumps
LEMMA JumpIs ==
  ASSUME TypeOK, TrailHolds, NEW k \in 0 .. Level - 1, NEW b, b = control[k + 1],
         NEW driving, Drives(driving, k), NEW r, Jump(k, driving, r)
  PROVE  /\ b \in Nat /\ b <= Len(trail) /\ Len(driving) \in {0, 1} /\ trail' \in Seq(Lit)
         /\ DOMAIN trail' = 1 .. b + Len(driving) /\ propagated' = b /\ k \in Nat
         /\ \A n \in 1 .. b : n \in DOMAIN trail /\ trail'[n] = trail[n]
                              /\ reason'[Idx(trail[n])] = reason[Idx(trail[n])]
         /\ Len(driving) = 1 => trail'[b + 1] = driving[1] /\ reason'[Idx(driving[1])] = r
         /\ Len(control') = k /\ DOMAIN control' = 1 .. k /\ k + 1 \in DOMAIN control
         /\ \A j \in 1 .. k : j \in DOMAIN control /\ control'[j] = control[j] /\ control[j] <= b
<1> DEFINE prefix == SubSeq(trail, 1, b)
<1> DEFINE dvars == {Idx(l) : l \in ToSet(driving)}
<1>1. /\ Level = Len(control) /\ Level \in Nat /\ DOMAIN control = 1 .. Level
      /\ Len(trail) \in Nat /\ DOMAIN trail = 1 .. Len(trail)
      /\ \A n \in 1 .. Len(trail) : trail[n] \in Lit /\ Idx(trail[n]) \in Var
      /\ \A j \in 1 .. Level : control[j] \in Nat
      /\ control \in Seq(Nat) /\ trail \in Seq(Lit)
  BY StoreFacts, LitFacts DEF TypeOK
<1>2. k + 1 \in 1 .. Level /\ k \in Nat /\ b \in Nat /\ b <= Len(trail)
  <2>1. k + 1 \in 1 .. Level /\ k \in Nat
    BY <1>1
  <2> QED
    BY <1>1, <2>1, SMTT(60) DEF TrailHolds
<1>3. prefix \in Seq(Lit) /\ Len(prefix) = b /\ \A n \in 1 .. b : prefix[n] = trail[n]
  <2>1. b \in 0 .. Len(trail)
    BY <1>1, <1>2
  <2> QED
    BY <1>1, <2>1, PrefixIs
<1>4. /\ control' \in Seq(Nat) /\ Len(control') = k /\ DOMAIN control' = 1 .. k
      /\ \A j \in 1 .. k : control'[j] = control[j]
  <2>1. control' = SubSeq(control, 1, k) /\ k \in 0 .. Len(control)
    BY <1>1, <1>2 DEF Jump
  <2> QED
    BY <1>1, <2>1, PrefixIs, LenProperties
<1>5. \A j \in 1 .. k : j \in DOMAIN control /\ control[j] <= b
  <2>1. \A j \in 1 .. k : j \in DOMAIN control /\ k + 1 \in DOMAIN control /\ j <= k + 1
    BY <1>1, <1>2
  <2> QED
    BY <2>1 DEF TrailHolds
<1>6. /\ driving \in Seq(Lit) /\ Len(driving) \in {0, 1} /\ dvars = {Idx(driving[m]) : m \in 1 .. Len(driving)}
      /\ Len(driving) = 1 => driving[1] \in Lit /\ \A n \in 1 .. b : Idx(trail[n]) # Idx(driving[1])
  <2>1. CASE driving = <<>>
    BY <2>1 DEF ToSet
  <2>2. CASE \E l \in Lit : driving = <<l>> /\ \A n \in 1 .. b : Idx(trail[n]) # Idx(l)
    <3>1. PICK l \in Lit : driving = <<l>> /\ \A n \in 1 .. b : Idx(trail[n]) # Idx(l)
      BY <2>2
    <3>2. driving \in Seq(Lit) /\ Len(driving) = 1 /\ driving[1] = l /\ DOMAIN driving = 1 .. Len(driving)
      BY ONLY <3>1
    <3> QED
      BY <3>1, <3>2 DEF ToSet
  <2> QED
    BY <2>1, <2>2 DEF Drives
<1>7. /\ trail' \in Seq(Lit) /\ Len(trail') = b + Len(driving)
      /\ \A n \in 1 .. b : trail'[n] = trail[n]
      /\ Len(driving) = 1 => trail'[b + 1] = driving[1]
  <2>1. trail' = prefix \o driving
    BY DEF Jump
  <2> HIDE DEF prefix
  <2>2. /\ prefix \o driving \in Seq(Lit) /\ Len(prefix \o driving) = b + Len(driving)
        /\ \A i \in 1 .. b + Len(driving) :
             (prefix \o driving)[i] = IF i <= b THEN prefix[i] ELSE driving[i - b]
    <3>1. /\ prefix \o driving \in Seq(Lit) /\ Len(prefix \o driving) = Len(prefix) + Len(driving)
          /\ \A i \in 1 .. Len(prefix) + Len(driving) :
               (prefix \o driving)[i] = IF i <= Len(prefix) THEN prefix[i] ELSE driving[i - Len(prefix)]
      BY ONLY <1>3, <1>6, ConcatProperties, ZenonT(60)
    <3> QED
      BY <1>3, <3>1
  <2>3. \A n \in 1 .. b : n \in 1 .. b + Len(driving) /\ n <= b
    BY <1>2, <1>6
  <2>4. Len(driving) = 1 => b + 1 \in 1 .. b + Len(driving) /\ ~(b + 1 <= b) /\ (b + 1) - b = 1
    BY <1>2
  <2>5. \A n \in 1 .. b : trail'[n] = trail[n]
    BY <1>3, <2>1, <2>2, <2>3
  <2>6. Len(driving) = 1 => trail'[b + 1] = driving[1]
    BY <2>1, <2>2, <2>4
  <2> QED
    BY <2>1, <2>2, <2>5, <2>6
<1> HIDE DEF prefix
<1>8. DOMAIN trail' = 1 .. b + Len(driving)
  BY <1>7, LenProperties
<1>9. reason' = [v \in Var |-> IF v \in dvars THEN r
                               ELSE IF \E n \in 1 .. b : Idx(trail[n]) = v THEN reason[v] ELSE 0]
  BY DEF Jump
<1> HIDE DEF dvars
<1>10. \A n \in 1 .. b : n \in DOMAIN trail /\ Idx(trail[n]) \in Var
  BY <1>1, <1>2
<1>11. \A n \in 1 .. b : reason'[Idx(trail[n])] = reason[Idx(trail[n])]
  <2> SUFFICES ASSUME NEW n \in 1 .. b PROVE reason'[Idx(trail[n])] = reason[Idx(trail[n])]
    OBVIOUS
  <2>1. Idx(trail[n]) \notin dvars
    BY <1>6
  <2> QED
    BY <1>9, <1>10, <2>1
<1>12. Len(driving) = 1 => reason'[Idx(driving[1])] = r
  <2> SUFFICES ASSUME Len(driving) = 1 PROVE reason'[Idx(driving[1])] = r
    OBVIOUS
  <2>1. Idx(driving[1]) \in dvars /\ Idx(driving[1]) \in Var
    BY <1>6, LitFacts
  <2> QED
    BY <1>9, <2>1
<1>13. propagated' = b
  BY DEF Jump
<1> QED
  BY <1>1, <1>2, <1>4, <1>5, <1>6, <1>7, <1>8, <1>10, <1>11, <1>12, <1>13

\* What was visited at the level the jump goes to stays guarded.
LEMMA JumpGuarded ==
  ASSUME TypeOK, TrailHolds, NEW k \in 0 .. Level - 1, NEW b, b = control[k + 1],
         NEW driving, Drives(driving, k), NEW r, Jump(k, driving, r),
         NEW h \in Int, b <= h, NEW lits, Guarded(trail, control, lits, h)
  PROVE  Guarded(trail', control', lits, b)
<1>1. /\ b \in Nat /\ b <= Len(trail) /\ Len(driving) \in {0, 1}
      /\ DOMAIN trail' = 1 .. b + Len(driving) /\ k \in Nat
      /\ \A n \in 1 .. b : n \in DOMAIN trail /\ trail'[n] = trail[n]
      /\ Len(control') = k /\ DOMAIN control' = 1 .. k /\ k + 1 \in DOMAIN control
      /\ \A j \in 1 .. k : j \in DOMAIN control /\ control'[j] = control[j]
  BY JumpIs
<1>2. Len(trail) \in Nat /\ DOMAIN trail = 1 .. Len(trail)
  BY StoreFacts
<1> SUFFICES ASSUME NEW i \in {1, 2}, NEW p \in DOMAIN trail', p <= b, trail'[p] = -lits[i]
             PROVE  \E q \in DOMAIN trail' : trail'[q] \in ToSet(lits) /\ NotAbove(control', q, p)
  BY DEF Guarded
<1>3. p \in 1 .. b /\ p \in DOMAIN trail /\ trail[p] = -lits[i] /\ p <= h
  BY <1>1, SMTT(60)
<1>4. PICK q \in DOMAIN trail : trail[q] \in ToSet(lits) /\ NotAbove(control, q, p)
  BY <1>3 DEF Guarded
<1>5. q \in 1 .. b
  <2>1. ~(b < q)
    BY <1>1, <1>3, <1>4 DEF NotAbove
  <2> QED
    BY <1>1, <1>2, <2>1
<1>6. q \in DOMAIN trail' /\ trail'[q] \in ToSet(lits)
  BY <1>1, <1>4, <1>5, SMTT(60)
<1>7. NotAbove(control', q, p)
  BY <1>1, <1>4, ZenonT(60) DEF NotAbove
<1> QED
  BY <1>6, <1>7

\* Reasons that stay force as before, the driving literal is forced by the new one.
LEMMA JumpForced ==
  ASSUME TypeOK, TrailHolds, NEW k \in 0 .. Level - 1, NEW b, b = control[k + 1],
         NEW driving, Drives(driving, k), NEW r, Jump(k, driving, r), NEW m,
         \A n \in 1 .. b : (k > 0 /\ n > control[1] /\ reason[Idx(trail[n])] # 0) =>
           /\ ~m[reason[Idx(trail[n])]].garbage
           /\ Forces(trail, n, m[reason[Idx(trail[n])]].lits),
         (k > 0 /\ r # 0 /\ Len(driving) = 1) =>
           /\ ~m[r].garbage /\ driving[1] \in ToSet(m[r].lits)
           /\ \A l \in ToSet(m[r].lits) \ {driving[1]} : \E p \in 1 .. b : trail[p] = -l
  PROVE  Forced(trail', control', reason', m)
<1>1. /\ b \in Nat /\ b <= Len(trail) /\ Len(driving) \in {0, 1}
      /\ DOMAIN trail' = 1 .. b + Len(driving) /\ k \in Nat
      /\ \A n \in 1 .. b : n \in DOMAIN trail /\ trail'[n] = trail[n]
                              /\ reason'[Idx(trail[n])] = reason[Idx(trail[n])]
      /\ Len(driving) = 1 => trail'[b + 1] = driving[1] /\ reason'[Idx(driving[1])] = r
      /\ Len(control') = k /\ DOMAIN control' = 1 .. k
      /\ \A j \in 1 .. k : control'[j] = control[j]
  BY JumpIs, SMTT(60)
<1> SUFFICES ASSUME NEW n \in DOMAIN trail', k > 0, n > control'[1], reason'[Idx(trail'[n])] # 0
             PROVE  ~m[reason'[Idx(trail'[n])]].garbage /\ Forces(trail', n, m[reason'[Idx(trail'[n])]].lits)
  BY <1>1 DEF Forced
<1>2. control'[1] = control[1]
  BY <1>1, SMTT(60)
<1>3. CASE n \in 1 .. b
  <2>1. ~m[reason[Idx(trail[n])]].garbage /\ Forces(trail, n, m[reason[Idx(trail[n])]].lits)
    BY <1>1, <1>2, <1>3, SMTT(60)
  <2>2. \A p \in 1 .. n : trail'[p] = trail[p]
    BY <1>1, <1>3
  <2>3. Forces(trail', n, m[reason[Idx(trail[n])]].lits)
    BY <1>1, <1>3, <2>1, <2>2, SMTT(60) DEF Forces
  <2> QED
    BY <1>1, <1>3, <2>1, <2>3, SMTT(60)
<1>4. CASE n = b + 1 /\ Len(driving) = 1
  <2>1. trail'[n] = driving[1] /\ reason'[Idx(trail'[n])] = r
    BY <1>1, <1>4
  <2>2. \A p \in 1 .. b : p \in 1 .. n /\ trail'[p] = trail[p]
    BY <1>1, <1>4
  <2>3. Forces(trail', n, m[r].lits)
    BY <2>1, <2>2, <1>4 DEF Forces
  <2> QED
    BY <1>4, <2>1, <2>3
<1>5. n \in 1 .. b \/ (n = b + 1 /\ Len(driving) = 1)
  <2>1. CASE Len(driving) = 0
    BY <1>1, <2>1
  <2>2. CASE Len(driving) = 1
    <3>1. n \in 1 .. b + 1 /\ b \in Nat
      BY <1>1, <2>2
    <3> QED
      BY <2>2, <3>1
  <2> QED
    BY <1>1, <2>1, <2>2
<1> QED
  BY <1>3, <1>4, <1>5

LEMMA RestartWatched ==
  ASSUME IInv, PInv, Restart
  PROVE  PInv'
<1>1. /\ pc = "search" /\ pc' = "search" /\ conflict = 0 /\ conflict' = 0 /\ propagated = Len(trail)
      /\ Jump(0, <<>>, 0) /\ mem' = mem /\ clauses' = clauses /\ watches' = watches /\ Level > 0
  BY DEF Restart, Quiet, store
<1>2. /\ TypeOK /\ TrailHolds /\ AllGuarded(trail, control, mem, propagated) /\ propagated \in Nat
      /\ Level \in Nat
  BY <1>1, SearchFacts DEF Visited
<1>3. Drives(<<>>, 0) /\ 0 \in 0 .. Level - 1
  BY <1>1, <1>2 DEF Drives
<1>4. PICK b : b = control[0 + 1]
  OBVIOUS
<1>5. b \in Nat /\ b <= Len(trail) /\ propagated' = b /\ Len(control') = 0
  BY <1>1, <1>2, <1>3, <1>4, JumpIs
<1>6. AllGuarded(trail', control', mem, b)
  <2> SUFFICES ASSUME NEW c \in Addr, Live(mem, c) PROVE Guarded(trail', control', mem[c].lits, b)
    BY DEF AllGuarded
  <2>1. Guarded(trail, control, mem[c].lits, propagated)
    BY <1>2 DEF AllGuarded
  <2> QED
    BY <1>1, <1>2, <1>3, <1>4, <1>5, <2>1, JumpGuarded
<1>7. Forced(trail', control', reason', mem)
  BY <1>5 DEF Forced
<1> QED
  BY <1>1, <1>5, <1>6, <1>7, SameWatched DEF Visited

-----------------------------------------------------------------------------
\* Learned clauses
LEMMA LearnUnitWatched ==
  ASSUME IInv, PInv, pc = "search", conflict # 0, NEW S, Learnable(S), NEW l \in S, LearnUnit(l), conflict' = 0,
         UNCHANGED <<collected, collections, pc>>
  PROVE  PInv'
<1>1. /\ pc' = "search" /\ Jump(0, <<l>>, 0) /\ mem' = mem /\ clauses' = clauses /\ watches' = watches
  BY DEF LearnUnit, store
<1>2. /\ TypeOK /\ TrailHolds /\ Level \in Nat /\ Level = Len(control) /\ Level > 0
      /\ AllGuarded(trail, control, mem, control[Level])
      /\ DOMAIN control = 1 .. Level /\ \A j \in 1 .. Level : control[j] \in Nat
  BY SearchFacts DEF Visited, Learnable
<1>3. Drives(<<l>>, 0) /\ 0 \in 0 .. Level - 1
  BY <1>2, UnitDrives
<1>4. PICK b : b = control[0 + 1]
  OBVIOUS
<1>5. b \in Nat /\ b <= Len(trail) /\ propagated' = b /\ Len(control') = 0
  BY <1>1, <1>2, <1>3, <1>4, JumpIs
<1>6. b <= control[Level] /\ control[Level] \in Int
  <2>1. 1 \in DOMAIN control /\ Level \in DOMAIN control /\ 1 <= Level /\ b = control[1]
    BY <1>2, <1>4
  <2> QED
    BY <1>2, <2>1 DEF TrailHolds
<1>7. AllGuarded(trail', control', mem, b)
  <2> SUFFICES ASSUME NEW d \in Addr, Live(mem, d) PROVE Guarded(trail', control', mem[d].lits, b)
    BY DEF AllGuarded
  <2>1. Guarded(trail, control, mem[d].lits, control[Level])
    BY <1>2 DEF AllGuarded
  <2> QED
    BY <1>1, <1>2, <1>3, <1>4, <1>6, <2>1, JumpGuarded
<1>8. Forced(trail', control', reason', mem)
  BY <1>5 DEF Forced
<1> QED
  BY <1>1, <1>5, <1>7, <1>8, SameWatched DEF Visited

\* The level of a literal by the places where the levels begin
LEMMA LevelIs ==
  ASSUME TypeOK, TrailHolds, NEW n \in DOMAIN trail, NEW l \in {trail[n], -trail[n]}
  PROVE  \A j \in 1 .. Level : control[j] < n <=> j <= LevelOf(l)
<1> DEFINE Lower == {j \in DOMAIN control : control[j] < n}
<1>1. /\ Len(trail) \in Nat /\ n \in Nat /\ DOMAIN control = 1 .. Level /\ Level \in Nat
      /\ \A j \in 1 .. Level : control[j] \in Nat
  BY StoreFacts
<1>2. LevelOf(l) = Cardinality(Lower)
  BY LevelFacts DEF LevelOf
<1>3. \A i, j \in 1 .. Level : i <= j /\ control[j] < n => control[i] < n
  <2> SUFFICES ASSUME NEW i \in 1 .. Level, NEW j \in 1 .. Level, i <= j, control[j] < n PROVE control[i] < n
    OBVIOUS
  <2>1. control[i] <= control[j]
    BY <1>1 DEF TrailHolds
  <2> QED
    BY <1>1, <2>1
<1>4. \A j : j \in Lower <=> j \in 1 .. Level /\ control[j] < n
  BY <1>1
<1> HIDE DEF Lower
<1>5. /\ \A j \in Int : IsFiniteSet(1 .. j) /\ Cardinality(1 .. j) = IF 1 > j THEN 0 ELSE j - 1 + 1
      /\ Lower \in SUBSET (1 .. Level)
  BY <1>4, FS_Interval
<1>6. IsFiniteSet(Lower) /\ Cardinality(Lower) \in Nat
  <2>1. IsFiniteSet(1 .. Level)
    BY <1>1, <1>5
  <2>2. IsFiniteSet(Lower)
    BY ONLY <1>5, <2>1, FS_Subset
  <2> QED
    BY ONLY <2>2, FS_CardinalityType
<1>7. ASSUME NEW j \in 1 .. Level, control[j] < n PROVE j <= Cardinality(Lower)
  <2>1. (1 .. j) \in SUBSET Lower
    BY ONLY <1>1, <1>3, <1>4, <1>7, SMTT(60)
  <2>2. Cardinality(1 .. j) <= Cardinality(Lower)
    BY ONLY <1>6, <2>1, FS_Subset
  <2> QED
    BY <1>1, <1>5, <2>2
<1>8. ASSUME NEW j \in 1 .. Level, ~(control[j] < n) PROVE Cardinality(Lower) < j
  <2>1. Lower \in SUBSET (1 .. j - 1)
    <3> SUFFICES ASSUME NEW i \in Lower PROVE i \in 1 .. j - 1
      OBVIOUS
    <3>1. i \in 1 .. Level /\ ~(j <= i)
      BY <1>3, <1>4, <1>8
    <3> QED
      BY <1>1, <3>1
  <2>2. j - 1 \in Int
    BY <1>1
  <2>3. Cardinality(Lower) <= Cardinality(1 .. j - 1)
    BY ONLY <1>5, <2>1, <2>2, FS_Subset
  <2> QED
    BY <1>1, <1>5, <1>6, <2>2, <2>3
<1> QED
  BY <1>1, <1>2, <1>6, <1>7, <1>8

\* The clause that is learned, and where its literals are
LEMMA LearnedIs ==
  ASSUME IInv, pc = "search", NEW S, Learnable(S), Cardinality(S) # 1, LearnClause(S),
         NEW lits, lits = Sorted(S), NEW c, c = Head(FreeAddr)
  PROVE  /\ lits \in Seq(Lit) /\ Len(lits) \in Nat /\ Len(lits) >= 2 /\ DOMAIN lits = 1 .. Len(lits)
         /\ ToSet(lits) = S /\ IsInjective(lits)
         /\ LevelOf(lits[2]) \in 0 .. Level - 1 /\ Drives(<<lits[1]>>, LevelOf(lits[2]))
         /\ Jump(LevelOf(lits[2]), <<lits[1]>>, c)
         /\ c \in Addr /\ c \notin K /\ K' = K \cup {c} /\ watches' = Watched(watches, c, lits)
         /\ mem'[c].lits = lits /\ ~mem'[c].garbage
         /\ \A d \in Addr : d # c => /\ mem'[d].lits = mem[d].lits
                                     /\ d \in Subsumed(S) => mem'[d].garbage
                                     /\ d \notin Subsumed(S) => mem'[d] = mem[d]
<1> DEFINE glue == Cardinality({LevelOf(l) : l \in S}) - 1
<1> DEFINE used == IF glue <= Tier2 THEN 2 ELSE 1
<1> DEFINE new == Stored(lits, TRUE, glue, used)
<1> DEFINE marked == Marked(mem, Subsumed(S))
<1>1. TypeOK /\ TrailHolds /\ ListHolds /\ StoreIs(mem, K)
  BY DEF IInv, AtRest
<1>2. /\ Len(clauses) < MaxClauses /\ Jump(LevelOf(lits[2]), <<lits[1]>>, c)
      /\ clauses' = Append(clauses, c) /\ watches' = Watched(watches, c, lits)
      /\ mem' = [marked EXCEPT ![c] = new]
  BY DEF LearnClause
<1>3. /\ lits \in Seq(Lit) /\ Len(lits) >= 2 /\ ToSet(lits) = S /\ IsInjective(lits)
      /\ LevelOf(lits[2]) \in 0 .. Level - 1 /\ Drives(<<lits[1]>>, LevelOf(lits[2]))
  BY <1>1, SortedIs
<1>4. Len(lits) \in Nat /\ DOMAIN lits = 1 .. Len(lits)
  BY <1>3, LenProperties
<1>5. c \in Addr /\ c \notin K
  <2>1. /\ FreeAddr \in Seq(Addr) /\ ToSet(FreeAddr) = Addr \ K /\ Len(FreeAddr) \in Nat
        /\ MaxClauses <= Len(FreeAddr) /\ Len(clauses) \in Nat
    BY <1>1, FreeAddrIs
  <2>2. Len(FreeAddr) >= 1
    BY <1>2, <2>1, CollectAssumption
  <2>3. FreeAddr # <<>> /\ DOMAIN FreeAddr = 1 .. Len(FreeAddr)
    BY <2>1, <2>2, LenProperties, EmptySeq
  <2>4. Head(FreeAddr) = FreeAddr[1]
    BY <2>1, <2>3
  <2>5. 1 \in DOMAIN FreeAddr
    BY <2>1, <2>2, <2>3
  <2> QED
    BY <2>1, <2>4, <2>5 DEF ToSet
<1>6. new.lits = lits /\ new.garbage = FALSE
  BY DEF Stored
<1>7. /\ marked \in [Addr -> ClauseRecord]
      /\ \A d \in Addr : /\ marked[d].lits = mem[d].lits
                         /\ d \in Subsumed(S) => marked[d].garbage
                         /\ d \notin Subsumed(S) => marked[d] = mem[d]
  <2>1. mem \in [Addr -> ClauseRecord]
    BY <1>1 DEF TypeOK
  <2> QED
    BY <2>1, MarkedIs
<1> HIDE DEF new, marked
<1>8. \A d \in Addr : mem'[d] = IF d = c THEN new ELSE marked[d]
  BY <1>2, <1>5, <1>7
<1>9. K' = K \cup {c}
  <2>1. clauses \in Seq(Addr) /\ IsInjective(clauses) /\ c \notin ToSet(clauses)
    BY <1>1, <1>5 DEF TypeOK, ListHolds, K
  <2> QED
    BY <1>2, <1>5, <2>1, AppendList DEF K
<1> QED
  BY <1>2, <1>3, <1>4, <1>5, <1>6, <1>7, <1>8, <1>9

\* All literals but the first are false on the part of the trail that stays, and the
\* second one was the last of them.
LEMMA LearnedFalse ==
  ASSUME TypeOK, TrailHolds, NEW S, Learnable(S), Cardinality(S) # 1, NEW lits, lits = Sorted(S),
         NEW k, k = LevelOf(lits[2]), NEW b, b = control[k + 1]
  PROVE  /\ \A j \in 2 .. Len(lits) : \E p \in 1 .. b : p \in DOMAIN trail /\ trail[p] = -lits[j]
         /\ \A p \in 1 .. b : trail[p] # -lits[1] /\ trail[p] # lits[1]
         /\ \A p \in DOMAIN trail : trail[p] = -lits[2] => \A j \in 1 .. k : control[j] < p
         /\ \A l \in S : l \notin ToSet(trail)
<1>1. /\ lits \in Seq(Lit) /\ Len(lits) >= 2 /\ ToSet(lits) = S
      /\ \A i, j \in DOMAIN lits, m, n \in DOMAIN trail :
           (i <= j /\ lits[i] = -trail[m] /\ lits[j] = -trail[n]) => n <= m
      /\ k \in 0 .. Level - 1 /\ Drives(<<lits[1]>>, k)
  BY SortedIs
<1>2. /\ Len(lits) \in Nat /\ DOMAIN lits = 1 .. Len(lits) /\ \A j \in 1 .. Len(lits) : lits[j] \in Lit
      /\ Len(trail) \in Nat /\ DOMAIN trail = 1 .. Len(trail) /\ Level \in Nat
      /\ \A n \in 1 .. Len(trail) : trail[n] \in Lit
      /\ \A j \in 1 .. Level : control[j] \in Nat
  BY <1>1, StoreFacts, LenProperties, ElementOfSeq
<1>3. \A l \in Lit : l \in Int /\ -l \in Int /\ -(-l) = l /\ l # -l /\ -l \in Lit
  BY LitFacts
<1>4. \A j \in DOMAIN lits : \E n \in DOMAIN trail : lits[j] = -trail[n]
  BY <1>1 DEF Learnable, ToSet
<1>5. 1 \in DOMAIN lits /\ 2 \in DOMAIN lits
  BY <1>1, <1>2
<1>6. PICK m \in DOMAIN trail : lits[2] = -trail[m]
  BY <1>4, <1>5
<1>7. \A j \in 1 .. Level : control[j] < m <=> j <= k
  BY <1>6, LevelIs
<1>8. k + 1 \in 1 .. Level /\ k \in Nat /\ b \in Nat
  BY <1>1, <1>2, SMTT(60)
<1>9. m <= b
  BY <1>2, <1>7, <1>8, SMTT(60)
<1>10. ASSUME NEW j \in 2 .. Len(lits) PROVE \E p \in 1 .. b : p \in DOMAIN trail /\ trail[p] = -lits[j]
  <2>1. j \in DOMAIN lits /\ 2 <= j
    BY <1>2
  <2>2. PICK n \in DOMAIN trail : lits[j] = -trail[n]
    BY <1>4, <2>1
  <2>3. n <= m
    BY <1>1, <1>5, <1>6, <2>1, <2>2
  <2>4. n \in 1 .. b /\ trail[n] = -lits[j]
    BY ONLY <1>2, <1>3, <1>8, <1>9, <2>2, <2>3
  <2> QED
    BY <2>2, <2>4
<1>11. ASSUME NEW p \in 1 .. b PROVE trail[p] # -lits[1] /\ trail[p] # lits[1]
  <2>1. Idx(trail[p]) # Idx(lits[1])
    <3>1. PICK l \in Lit : <<lits[1]>> = <<l>> /\ \A n \in 1 .. b : Idx(trail[n]) # Idx(l)
      BY <1>1 DEF Drives
    <3>2. lits[1] = l
      BY <3>1
    <3> QED
      BY <3>1, <3>2
  <2>2. Idx(-lits[1]) = Idx(lits[1])
    BY <1>2, <1>5, IdxNeg
  <2> QED
    BY <2>1, <2>2
<1>12. ASSUME NEW p \in DOMAIN trail, trail[p] = -lits[2], NEW j \in 1 .. k PROVE control[j] < p
  <2>1. lits[2] = -trail[p]
    <3>1. lits[2] \in Lit
      BY <1>2, <1>5
    <3> QED
      BY ONLY <1>3, <1>12, <3>1
  <2>2. \A i \in 1 .. Level : control[i] < p <=> i <= k
    BY <2>1, LevelIs
  <2>3. j \in 1 .. Level /\ j <= k
    BY <1>1, <1>2
  <2> QED
    BY <2>2, <2>3
<1>13. ASSUME NEW l \in S PROVE l \notin ToSet(trail)
  <2>1. PICK n \in DOMAIN trail : l = -trail[n]
    BY DEF Learnable
  <2> SUFFICES ASSUME NEW p \in DOMAIN trail, trail[p] = -trail[n] PROVE FALSE
    BY <2>1 DEF ToSet
  <2>2. Idx(trail[p]) = Idx(trail[n])
    BY <1>2, IdxNeg
  <2>3. p = n
    BY <2>2 DEF TrailHolds, NoneTwice
  <2> QED
    BY <1>2, <1>3, <2>3
<1> QED
  BY <1>10, <1>11, <1>12, <1>13

\* No reason that stays is subsumed, as the driving literal is unassigned behind it;
\* nor is a binary clause: it would have propagated earlier.
LEMMA SubsumedIs ==
  ASSUME IInv, PInv, pc = "search", conflict # 0, NEW S, Learnable(S), Cardinality(S) # 1,
         NEW lits, lits = Sorted(S), NEW k, k = LevelOf(lits[2]), NEW b, b = control[k + 1]
  PROVE  /\ \A n \in 1 .. b : \A r \in Addr : Forces(trail, n, mem[r].lits) => r \notin Subsumed(S)
         /\ \A d \in Subsumed(S) : d \in K /\ Len(mem[d].lits) > 2
         /\ AllGuarded(trail, control, mem, control[Level]) /\ b \in Nat /\ b <= control[Level]
         /\ k \in Nat /\ control[Level] \in Nat
<1>1. /\ TypeOK /\ TrailHolds /\ Level \in Nat /\ Level = Len(control) /\ Level > 0
      /\ AllGuarded(trail, control, mem, control[Level])
      /\ DOMAIN control = 1 .. Level /\ \A j \in 1 .. Level : control[j] \in Nat
      /\ Len(trail) \in Nat /\ DOMAIN trail = 1 .. Len(trail)
  BY SearchFacts DEF Visited, Learnable
<1>2. /\ lits \in Seq(Lit) /\ Len(lits) >= 2 /\ ToSet(lits) = S /\ IsInjective(lits)
      /\ k \in 0 .. Level - 1
  BY <1>1, SortedIs
<1>3. /\ \A j \in 2 .. Len(lits) : \E p \in 1 .. b : p \in DOMAIN trail /\ trail[p] = -lits[j]
      /\ \A p \in 1 .. b : trail[p] # -lits[1] /\ trail[p] # lits[1]
      /\ \A l \in S : l \notin ToSet(trail)
  BY <1>1, LearnedFalse, SMTT(60)
<1>4. Len(lits) \in Nat /\ DOMAIN lits = 1 .. Len(lits) /\ 1 \in DOMAIN lits /\ 2 \in DOMAIN lits /\ 2 \in 2 .. Len(lits)
      /\ lits[1] \in S /\ lits[2] \in S /\ lits[1] # lits[2]
  <2>1. Len(lits) \in Nat /\ DOMAIN lits = 1 .. Len(lits)
    BY <1>2, LenProperties
  <2>2. 1 \in DOMAIN lits /\ 2 \in DOMAIN lits /\ 2 \in 2 .. Len(lits)
    BY <1>2, <2>1
  <2> QED
    BY <1>2, <2>1, <2>2 DEF ToSet, IsInjective
<1>5. k \in Nat /\ b \in Nat /\ control[Level] \in Nat /\ b <= control[Level]
  <2>1. k \in Nat /\ k + 1 \in 1 .. Level /\ Level \in 1 .. Level /\ k + 1 <= Level
    BY <1>1, <1>2, SMTT(60)
  <2> QED
    BY <1>1, <2>1, SMTT(60) DEF TrailHolds
<1>6. ASSUME NEW n \in 1 .. b, NEW r \in Addr, Forces(trail, n, mem[r].lits), r \in Subsumed(S) PROVE FALSE
  <2>1. lits[1] \in ToSet(mem[r].lits)
    BY <1>4, <1>6 DEF Subsumed
  <2>2. lits[1] # trail[n]
    BY <1>3
  <2>3. PICK p \in 1 .. n : trail[p] = -lits[1]
    BY <1>6, <2>1, <2>2 DEF Forces
  <2>4. p \in 1 .. b
    BY <1>5
  <2> QED
    BY <1>3, <2>3, <2>4
<1>7. ASSUME NEW d \in Subsumed(S) PROVE d \in K /\ Len(mem[d].lits) > 2
  <2>1. d \in K /\ d \in Addr /\ ~mem[d].garbage /\ S \subseteq ToSet(mem[d].lits)
    BY <1>1, StoreFacts DEF Subsumed, K
  <2>2. mem[d].lits \in Seq(Lit) /\ Len(mem[d].lits) >= 2
    BY <1>1, <2>1, StoreFacts DEF ClauseRecord, IInv, AtRest, StoreIs
  <2>3. Len(mem[d].lits) \in Nat /\ DOMAIN mem[d].lits = 1 .. Len(mem[d].lits)
    BY <2>2, LenProperties
  <2>0. PICK N : N = Len(mem[d].lits)
    OBVIOUS
  <2>a. N \in Nat /\ N >= 2
    BY <2>0, <2>2, <2>3
  <2> SUFFICES ASSUME N = 2 PROVE FALSE
    <3>1. N > 2
      BY ONLY <2>a, N = 2 => FALSE
    <3> QED
      BY <2>0, <2>1, <3>1
  <2>4. DOMAIN mem[d].lits = {1, 2}
    <3>1. DOMAIN mem[d].lits = 1 .. N
      BY ONLY <2>0, <2>3
    <3>2. 1 .. 2 = {1, 2}
      OBVIOUS
    <3> QED
      BY <3>1, <3>2
  <2>5. PICK i \in {1, 2} : mem[d].lits[i] = lits[2]
    BY <1>4, <2>1, <2>4 DEF ToSet
  <2>6. PICK j \in {1, 2} : mem[d].lits[j] = lits[1]
    BY <1>4, <2>1, <2>4 DEF ToSet
  <2>7. \A l \in ToSet(mem[d].lits) : l \in S
    BY <1>4, <2>4, <2>5, <2>6 DEF ToSet
  <2>8. PICK p \in 1 .. b : p \in DOMAIN trail /\ trail[p] = -lits[2]
    BY <1>3, <1>4
  <2>9. p <= control[Level]
    BY <1>5
  <2>10. Guarded(trail, control, mem[d].lits, control[Level])
    BY <1>1, <2>1, <2>2 DEF AllGuarded, Live
  <2>11. PICK q \in DOMAIN trail : trail[q] \in ToSet(mem[d].lits)
    BY <2>5, <2>8, <2>9, <2>10 DEF Guarded
  <2> QED
    BY ONLY <1>3, <2>7, <2>11 DEF ToSet
<1> QED
  BY <1>1, <1>5, <1>6, <1>7

\* The watches of a new clause
LEMMA WatchIs ==
  ASSUME NEW c \in Addr, NEW lits \in Seq(Lit), Len(lits) >= 2, IsInjective(lits), NEW l \in Lit,
         l \in FirstTwo(lits)
  PROVE  /\ Watch(c, lits, l) \in WatchRecord /\ Watch(c, lits, l).clause = c
         /\ Watch(c, lits, l).size = Len(lits) /\ Watch(c, lits, l).blit \in ToSet(lits)
         /\ Watch(c, lits, l).blit # l
<1>1. Len(lits) \in Nat /\ DOMAIN lits = 1 .. Len(lits) /\ 1 \in DOMAIN lits /\ 2 \in DOMAIN lits
  BY LenProperties
<1>2. lits[1] \in Lit /\ lits[2] \in Lit /\ lits[1] \in ToSet(lits) /\ lits[2] \in ToSet(lits) /\ lits[1] # lits[2]
  BY <1>1, ElementOfSeq DEF ToSet, IsInjective
<1>3. Watch(c, lits, l) = [clause |-> c, blit |-> IF lits[1] = l THEN lits[2] ELSE lits[1], size |-> Len(lits)]
  BY DEF Watch
<1> QED
  BY <1>1, <1>2, <1>3 DEF WatchRecord, FirstTwo

LEMMA LearnClauseWatched ==
  ASSUME IInv, PInv, pc = "search", conflict # 0, NEW S, Learnable(S), Cardinality(S) # 1, LearnClause(S),
         conflict' = 0, UNCHANGED <<collected, collections, pc>>
  PROVE  PInv'
<1>a. PICK lits : lits = Sorted(S)
  OBVIOUS
<1>b. PICK c : c = Head(FreeAddr)
  OBVIOUS
<1>c. PICK k : k = LevelOf(lits[2])
  OBVIOUS
<1>d. PICK b : b = control[k + 1]
  OBVIOUS
<1>1. /\ TypeOK /\ TrailHolds /\ AtRest /\ NoRepeats(mem) /\ trail \in Seq(Lit)
      /\ AllFit(watches, mem, K) /\ AllBlock(watches, mem) /\ Forced(trail, control, reason, mem)
      /\ \A d \in K : mem[d].garbage => Len(mem[d].lits) > 2
      /\ Level \in Nat /\ Level = Len(control) /\ DOMAIN control = 1 .. Level
      /\ StoreIs(mem, K) /\ AllInto(watches, K) /\ Protected \subseteq K /\ K \subseteq Addr
      /\ watches \in [Lit -> Seq(WatchRecord)]
  BY SearchFacts, StoreFacts DEF AtRest, TypeOK, WatchRecord
<1>2. /\ lits \in Seq(Lit) /\ Len(lits) \in Nat /\ Len(lits) >= 2 /\ DOMAIN lits = 1 .. Len(lits)
      /\ ToSet(lits) = S /\ IsInjective(lits)
      /\ k \in 0 .. Level - 1 /\ Drives(<<lits[1]>>, k) /\ Jump(k, <<lits[1]>>, c)
      /\ c \in Addr /\ c \notin K /\ K' = K \cup {c} /\ watches' = Watched(watches, c, lits)
      /\ mem'[c].lits = lits /\ ~mem'[c].garbage
      /\ \A d \in Addr : d # c => /\ mem'[d].lits = mem[d].lits
                                  /\ d \in Subsumed(S) => mem'[d].garbage
                                  /\ d \notin Subsumed(S) => mem'[d] = mem[d]
  BY <1>a, <1>b, <1>c, LearnedIs
<1>3. /\ \A n \in 1 .. b : \A r \in Addr : Forces(trail, n, mem[r].lits) => r \notin Subsumed(S)
      /\ \A d \in Subsumed(S) : d \in K /\ Len(mem[d].lits) > 2
      /\ AllGuarded(trail, control, mem, control[Level]) /\ b <= control[Level] /\ control[Level] \in Int
      /\ k \in Nat
  BY <1>a, <1>c, <1>d, SubsumedIs
<1>4. /\ \A j \in 2 .. Len(lits) : \E p \in 1 .. b : p \in DOMAIN trail /\ trail[p] = -lits[j]
      /\ \A p \in 1 .. b : trail[p] # -lits[1] /\ trail[p] # lits[1]
      /\ \A p \in DOMAIN trail : trail[p] = -lits[2] => \A j \in 1 .. k : control[j] < p
  <2>1. TypeOK /\ TrailHolds /\ Learnable(S) /\ Cardinality(S) # 1
    BY <1>1
  <2> QED
    BY ONLY <2>1, <1>a, <1>c, <1>d, LearnedFalse
<1>5. PICK driving : driving = <<lits[1]>>
  OBVIOUS
<1>6. /\ driving \in Seq({lits[1]}) /\ Len(driving) = 1 /\ driving[1] = lits[1]
  BY ONLY <1>5
<1>7. Drives(driving, k) /\ Jump(k, driving, c)
  BY <1>2, <1>5
<1>8. /\ b \in Nat /\ b <= Len(trail) /\ DOMAIN trail' = 1 .. b + 1 /\ propagated' = b
      /\ \A n \in 1 .. b : n \in DOMAIN trail /\ trail'[n] = trail[n]
                              /\ reason'[Idx(trail[n])] = reason[Idx(trail[n])]
      /\ trail'[b + 1] = lits[1] /\ Len(control') = k /\ DOMAIN control' = 1 .. k
      /\ \A j \in 1 .. k : j \in DOMAIN control /\ control'[j] = control[j] /\ control[j] <= b
  <2>1. TypeOK /\ TrailHolds /\ k \in 0 .. Level - 1
    BY <1>1, <1>2
  <2>2. /\ b \in Nat /\ b <= Len(trail) /\ DOMAIN trail' = 1 .. b + Len(driving) /\ propagated' = b
        /\ \A n \in 1 .. b : n \in DOMAIN trail /\ trail'[n] = trail[n]
                                /\ reason'[Idx(trail[n])] = reason[Idx(trail[n])]
        /\ Len(driving) = 1 => trail'[b + 1] = driving[1]
        /\ Len(control') = k /\ DOMAIN control' = 1 .. k
        /\ \A j \in 1 .. k : j \in DOMAIN control /\ control'[j] = control[j] /\ control[j] <= b
    BY ONLY <2>1, <1>7, <1>d, JumpIs, SMTT(60)
  <2> QED
    BY ONLY <1>6, <2>2
<1>9. NoRepeats(mem')
  BY <1>1, <1>2 DEF NoRepeats
<1>10. Len(control') > 0 => control'[Len(control')] <= propagated'
  <2>1. k > 0 => k \in 1 .. k
    BY <1>3
  <2> QED
    BY <1>8, <2>1
<1>11. Forced(trail', control', reason', mem')
  <2>1. UpperReasons(trail, control, reason, K)
    BY <1>1, ProtectedInto
  <2>2. ASSUME NEW n \in 1 .. b, k > 0, n > control[1], reason[Idx(trail[n])] # 0
        PROVE  /\ ~mem'[reason[Idx(trail[n])]].garbage
               /\ Forces(trail, n, mem'[reason[Idx(trail[n])]].lits)
    <3>1. Len(control) > 0 /\ n \in DOMAIN trail
      BY <1>1, <1>2, <1>8, <2>2, SMTT(60)
    <3>2. PICK r : r = reason[Idx(trail[n])]
      OBVIOUS
    <3>3. r \in K /\ r \in Addr /\ r # c
      BY <1>1, <1>2, <2>1, <2>2, <3>1, <3>2 DEF UpperReasons
    <3>4. ~mem[r].garbage /\ Forces(trail, n, mem[r].lits)
      BY <1>1, <2>2, <3>1, <3>2 DEF Forced
    <3>5. mem'[r] = mem[r]
      BY <1>2, <1>3, <3>3, <3>4
    <3> QED
      BY <3>2, <3>4, <3>5
  <2>3. /\ driving[1] \in ToSet(mem'[c].lits)
        /\ \A l \in ToSet(mem'[c].lits) \ {driving[1]} : \E p \in 1 .. b : trail[p] = -l
    <3>1. 1 \in DOMAIN lits /\ \A j \in DOMAIN lits : j = 1 \/ j \in 2 .. Len(lits)
      BY <1>2
    <3> QED
      BY <1>2, <1>4, <1>6, <3>1, SMTT(60) DEF ToSet
  <2> QED
    <3>1. TypeOK /\ TrailHolds /\ k \in 0 .. Level - 1 /\ ~mem'[c].garbage
      BY <1>1, <1>2
    <3>2. PICK m : m = mem'
      OBVIOUS
    <3>3. Forced(trail', control', reason', m)
      BY ONLY <3>1, <1>7, <1>d, <2>2, <2>3, <3>2, JumpForced
    <3> QED
      BY ONLY <3>2, <3>3
<1>12. AllGuarded(trail', control', mem', b)
  <2> SUFFICES ASSUME NEW d \in Addr, Live(mem', d) PROVE Guarded(trail', control', mem'[d].lits, b)
    BY DEF AllGuarded
  <2>1. CASE d # c
    <3>1. mem'[d] = mem[d] /\ Live(mem, d)
      BY <1>2, <2>1 DEF Live
    <3>2. Guarded(trail, control, mem[d].lits, control[Level])
      BY <1>3, <3>1 DEF AllGuarded
    <3>3. Guarded(trail', control', mem[d].lits, b)
      BY <1>1, <1>2, <1>3, <1>7, <1>d, <3>2, JumpGuarded
    <3> QED
      BY <3>1, <3>3
  <2>2. CASE d = c
    <3> SUFFICES ASSUME NEW i \in {1, 2}, NEW p \in DOMAIN trail', p <= b, trail'[p] = -lits[i]
                 PROVE  \E q \in DOMAIN trail' : trail'[q] \in ToSet(lits) /\ NotAbove(control', q, p)
      BY <1>2, <2>2 DEF Guarded
    <3>1. p \in 1 .. b /\ p \in DOMAIN trail /\ trail[p] = -lits[i]
      BY <1>8
    <3>2. i = 2
      BY <1>4, <3>1
    <3>3. NotAbove(control', b + 1, p)
      BY <1>4, <1>8, <3>1, <3>2 DEF NotAbove
    <3>4. b + 1 \in DOMAIN trail' /\ trail'[b + 1] \in ToSet(lits)
      <4>1. 1 \in DOMAIN lits /\ b + 1 \in 1 .. b + 1
        BY <1>2, <1>8
      <4> QED
        BY <1>8, <4>1 DEF ToSet
    <3> QED
      BY <3>3, <3>4
  <2> QED
    BY <2>1, <2>2
<1>13. \A l \in Lit : /\ l \in FirstTwo(lits) => watches'[l] = Append(watches[l], Watch(c, lits, l))
                      /\ l \notin FirstTwo(lits) => watches'[l] = watches[l]
  BY <1>2 DEF Watched, FirstTwo
<1>14. \A l \in Lit : /\ watches[l] \in Seq(WatchRecord) /\ Into(watches[l], K) /\ Never(watches[l], c)
                      /\ \A n \in DOMAIN watches[l] : watches[l][n].clause \in K
  BY <1>1, <1>2, SMTT(60) DEF AllInto, Into, Never
<1>15. ASSUME NEW l \in Lit, l \in FirstTwo(lits)
       PROVE  /\ Watch(c, lits, l) \in WatchRecord /\ Watch(c, lits, l).clause = c
              /\ Watch(c, lits, l).size = Len(lits) /\ Watch(c, lits, l).blit \in ToSet(lits)
              /\ Watch(c, lits, l).blit # l
  BY <1>2, <1>15, WatchIs
<1>16. AllFit(watches', mem', K')
  <2> SUFFICES ASSUME NEW d \in K \cup {c}, ~mem'[d].garbage, NEW l \in Lit
               PROVE  Fits(watches'[l], d, l \in FirstTwo(mem'[d].lits))
    BY <1>2 DEF AllFit
  <2>1. CASE d = c
    <3>1. CASE l \in FirstTwo(lits)
      <4>0. PICK w : w = Watch(c, lits, l)
        OBVIOUS
      <4>1. Once(watches'[l], c)
        <5>1. w \in WatchRecord /\ w.clause = c /\ watches[l] \in Seq(WatchRecord) /\ Never(watches[l], c)
          BY <1>14, <1>15, <3>1, <4>0
        <5>2. Once(Append(watches[l], w), c)
          BY ONLY <5>1, AppendFits
        <5> QED
          BY <1>13, <3>1, <4>0, <5>2
      <4> QED
        BY <1>2, <2>1, <3>1, <4>1 DEF Fits
    <3>2. CASE l \notin FirstTwo(lits)
      BY <1>2, <1>13, <1>14, <2>1, <3>2 DEF Fits
    <3> QED
      BY <3>1, <3>2
  <2>2. CASE d # c
    <3>1. d \in K /\ d \in Addr /\ mem'[d] = mem[d]
      BY <1>1, <1>2, <2>2
    <3>2. Fits(watches[l], d, l \in FirstTwo(mem[d].lits))
      BY <1>1, <3>1 DEF AllFit
    <3>3. CASE l \in FirstTwo(lits)
      <4>0. PICK w : w = Watch(c, lits, l)
        OBVIOUS
      <4>1. /\ Never(watches[l], d) => Never(watches'[l], d)
            /\ Once(watches[l], d) => Once(watches'[l], d)
        <5>1. w \in WatchRecord /\ w.clause # d /\ watches[l] \in Seq(WatchRecord)
          BY <1>14, <1>15, <2>2, <3>3, <4>0
        <5>2. /\ Never(watches[l], d) => Never(Append(watches[l], w), d)
              /\ Once(watches[l], d) => Once(Append(watches[l], w), d)
          BY ONLY <5>1, AppendFits
        <5> QED
          BY <1>13, <3>3, <4>0, <5>2
      <4> QED
        BY <3>1, <3>2, <4>1 DEF Fits
    <3>4. CASE l \notin FirstTwo(lits)
      BY <1>13, <3>1, <3>2, <3>4
    <3> QED
      BY <3>3, <3>4
  <2> QED
    BY <2>1, <2>2
<1>17. AllBlock(watches', mem')
  <2> SUFFICES ASSUME NEW l \in Lit PROVE Blocks(watches'[l], mem', l)
    BY DEF AllBlock
  <2>1. Blocks(watches[l], mem', l)
    <3>1. Blocks(watches[l], mem, l)
      BY <1>1 DEF AllBlock
    <3>2. ASSUME NEW n \in DOMAIN watches[l]
          PROVE  /\ watches[l][n].size = Len(mem'[watches[l][n].clause].lits)
                 /\ ~mem'[watches[l][n].clause].garbage =>
                      watches[l][n].blit \in ToSet(mem'[watches[l][n].clause].lits) \ {l}
      <4>1. PICK d : d = watches[l][n].clause
        OBVIOUS
      <4>2. d \in Addr /\ d # c
        BY <1>1, <1>2, <1>14, <4>1
      <4>3. mem'[d].lits = mem[d].lits /\ (~mem'[d].garbage => ~mem[d].garbage)
        BY <1>2, <4>2
      <4> QED
        BY <3>1, <4>1, <4>3 DEF Blocks
    <3> QED
      BY <3>2 DEF Blocks
  <2>2. CASE l \in FirstTwo(lits)
    <3>1. Blocks(Append(watches[l], Watch(c, lits, l)), mem', l)
      BY ONLY <1>2, <1>14, <1>15, <2>1, <2>2, AppendBlocks, SMTT(60)
    <3> QED
      BY <1>13, <2>2, <3>1
  <2>3. CASE l \notin FirstTwo(lits)
    BY <1>13, <2>1, <2>3
  <2> QED
    BY <2>2, <2>3
<1>18. pc' = "search" /\ GarbageIsLong' /\ NoneIsGarbage' /\ CopiesAlike'
  <2>1. ASSUME NEW d \in K \cup {c}, mem'[d].garbage PROVE Len(mem'[d].lits) > 2
    <3>1. d \in K /\ d \in Addr /\ d # c
      BY <1>1, <1>2, <2>1
    <3> QED
      BY <1>1, <1>2, <1>3, <2>1, <3>1
  <2> QED
    BY <1>2, <2>1 DEF GarbageIsLong, NoneIsGarbage, CopiesAlike
<1>19. AllGuarded(trail', control', mem', Visited(conflict', control', propagated'))
  BY <1>8, <1>12 DEF Visited
<1> QED
  BY <1>9, <1>10, <1>11, <1>16, <1>17, <1>18, <1>19, NextHolds

LEMMA AnalyzeWatched ==
  ASSUME IInv, PInv, NEW S \in SUBSET {-l : l \in ToSet(trail)}, Analyze(S)
  PROVE  PInv'
<1>1. /\ Learnable(S) /\ pc = "search" /\ conflict # 0 /\ conflict' = 0
      /\ UNCHANGED <<collected, collections, pc>>
  BY AnalyzeLearnable DEF IInv, Analyze
<1>2. CASE Cardinality(S) = 1
  <2>1. PICK l : l = CHOOSE x \in S : TRUE
    OBVIOUS
  <2>2. l \in S
    BY <1>1, <2>1 DEF Learnable
  <2>3. LearnUnit(l)
    BY <1>2, <2>1 DEF Analyze
  <2> QED
    BY <1>1, <2>2, <2>3, LearnUnitWatched
<1>3. CASE Cardinality(S) # 1
  <2>1. LearnClause(S)
    BY <1>3 DEF Analyze
  <2> QED
    BY <1>1, <1>3, <2>1, LearnClauseWatched
<1> QED
  BY <1>2, <1>3

-----------------------------------------------------------------------------
\* Reductions
\* Places on the root level
LEMMA RootIs ==
  ASSUME TypeOK, TrailHolds
  PROVE  /\ \A n \in DOMAIN trail : trail[n] \in RootLits <=> Level = 0 \/ n <= control[1]
         /\ \A l : l \in RootLits => \E n \in DOMAIN trail : trail[n] = l /\ (Level = 0 \/ n <= control[1])
<1>1. /\ Level = Len(control) /\ Level \in Nat /\ DOMAIN control = 1 .. Level
      /\ Len(trail) \in Nat /\ DOMAIN trail = 1 .. Len(trail) /\ trail \in Seq(Lit)
      /\ \A n \in 1 .. Len(trail) : trail[n] \in Lit
      /\ \A j \in 1 .. Level : control[j] \in Nat
  BY StoreFacts DEF TypeOK
<1>2. CASE Level = 0
  BY <1>2 DEF RootLits, ToSet
<1>3. CASE Level # 0
  <2>1. 1 \in DOMAIN control /\ control[1] \in 0 .. Len(trail)
    BY <1>1, <1>3 DEF TrailHolds
  <2>2. PICK prefix : prefix = SubSeq(trail, 1, control[1])
    OBVIOUS
  <2>3. /\ prefix \in Seq(Lit) /\ Len(prefix) = control[1]
        /\ \A n \in 1 .. control[1] : prefix[n] = trail[n]
    BY <1>1, <2>1, <2>2, PrefixIs
  <2>4. DOMAIN prefix = 1 .. control[1]
    BY <2>3, LenProperties
  <2>5. \A l : l \in RootLits <=> \E n \in 1 .. control[1] : trail[n] = l
    BY <1>3, <2>2, <2>3, <2>4, SMTT(60) DEF RootLits, ToSet
  <2>6. \A n \in 1 .. control[1] : n \in DOMAIN trail /\ n <= control[1]
    BY <1>1, <2>1
  <2>7. ASSUME NEW n \in DOMAIN trail PROVE trail[n] \in RootLits <=> n <= control[1]
    <3>1. ASSUME n <= control[1] PROVE trail[n] \in RootLits
      <4>1. n \in 1 .. control[1]
        BY <1>1, <2>1, <3>1
      <4> QED
        BY <2>5, <4>1
    <3>2. ASSUME trail[n] \in RootLits PROVE n <= control[1]
      <4>1. PICK m \in 1 .. control[1] : trail[m] = trail[n]
        BY <2>5, <3>2
      <4>2. m = n
        BY <2>6, <4>1 DEF TrailHolds, NoneTwice
      <4> QED
        BY <2>6, <4>1, <4>2
    <3> QED
      BY <3>1, <3>2
  <2> QED
    BY <1>3, <2>5, <2>6, <2>7
<1> QED
  BY <1>2, <1>3

\* No literal is on the trail with its negation.
LEMMA NeverBoth ==
  ASSUME TypeOK, TrailHolds, NEW m \in DOMAIN trail, NEW n \in DOMAIN trail
  PROVE  trail[m] # -trail[n]
<1> SUFFICES ASSUME trail[m] = -trail[n] PROVE FALSE
  OBVIOUS
<1>1. trail[m] \in Lit /\ trail[n] \in Lit
  BY StoreFacts
<1>2. Idx(trail[m]) = Idx(trail[n])
  BY <1>1, IdxNeg
<1>3. m = n
  BY <1>2 DEF TrailHolds, NoneTwice
<1>4. trail[m] \in Int /\ trail[m] # 0
  BY <1>1, LitFacts
<1> QED
  BY <1>3, <1>4

\* The first two literals stay in front when they are kept.
LEMMA FilteredFront ==
  ASSUME NEW X, NEW s \in Seq(X), IsInjective(s), Len(s) >= 2, NEW T, s[1] \in T, s[2] \in T,
         NEW f, f = Filtered(s, T)
  PROVE  Len(f) >= 2 /\ f[1] = s[1] /\ f[2] = s[2]
<1>1. /\ f \in Seq(X) /\ ToSet(f) = ToSet(s) \cap T
      /\ \E p \in [DOMAIN f -> DOMAIN s] :
           /\ \A k \in DOMAIN f : f[k] = s[p[k]]
           /\ \A j, k \in DOMAIN f : j < k => p[j] < p[k]
  BY FilteredIs, SMTT(60)
<1>2. PICK p \in [DOMAIN f -> DOMAIN s] :
        /\ \A k \in DOMAIN f : f[k] = s[p[k]]
        /\ \A j, k \in DOMAIN f : j < k => p[j] < p[k]
  BY <1>1
<1>3. /\ DOMAIN s = 1 .. Len(s) /\ Len(s) \in Nat /\ DOMAIN f = 1 .. Len(f) /\ Len(f) \in Nat
      /\ 1 \in DOMAIN s /\ 2 \in DOMAIN s
  BY <1>1, LenProperties
<1>4. \A k \in DOMAIN f : p[k] \in DOMAIN s /\ p[k] \in Nat /\ p[k] >= 1
  BY <1>3
<1>5. ASSUME NEW i \in DOMAIN s, s[i] \in T PROVE \E k \in DOMAIN f : f[k] = s[i] /\ p[k] = i
  <2>1. s[i] \in ToSet(f)
    BY <1>1, <1>5, SMTT(60) DEF ToSet
  <2>2. PICK k \in DOMAIN f : f[k] = s[i]
    BY <2>1 DEF ToSet
  <2>3. s[p[k]] = s[i] /\ p[k] \in DOMAIN s
    BY <1>2, <1>4, <2>2
  <2> QED
    BY <2>2, <2>3 DEF IsInjective
<1>6. PICK j \in DOMAIN f : f[j] = s[1] /\ p[j] = 1
  BY <1>3, <1>5
<1>7. PICK k \in DOMAIN f : f[k] = s[2] /\ p[k] = 2
  BY <1>3, <1>5
<1>8. j = 1
  <2>1. 1 \in DOMAIN f /\ j \in Nat /\ j >= 1
    BY <1>3
  <2>2. ~(1 < j)
    BY <1>2, <1>4, <1>6, <2>1
  <2> QED
    BY <2>1, <2>2
<1>9. k = 2
  <2>1. k \in Nat /\ k >= 1 /\ k # 1 /\ k <= Len(f)
    BY <1>3, <1>6, <1>7, <1>8
  <2>2. 2 \in DOMAIN f
    BY <1>3, <2>1
  <2>3. 1 < 2 /\ p[1] = 1 /\ 1 \in DOMAIN f /\ p[2] \in Nat
    BY <1>4, <1>6, <1>8, <2>2
  <2>4. p[1] < p[2]
    BY <1>2, <2>2, <2>3
  <2>5. ~(2 < k)
    <3> SUFFICES ASSUME 2 < k PROVE FALSE
      OBVIOUS
    <3>1. p[2] < p[k]
      BY <1>2, <2>2
    <3> QED
      BY <1>7, <2>3, <2>4, <3>1
  <2> QED
    BY <2>1, <2>5
<1> QED
  BY <1>3, <1>6, <1>7, <1>8, <1>9

\* The same clauses, some of them garbage
LEMMA FewerLive ==
  ASSUME NEW m, NEW n, \A c \in Addr : n[c].lits = m[c].lits /\ (~n[c].garbage => ~m[c].garbage),
         NEW t, NEW ctl, NEW h, AllGuarded(t, ctl, m, h), NoRepeats(m), NEW w, NEW C \in SUBSET Addr,
         AllFit(w, m, C)
  PROVE  AllGuarded(t, ctl, n, h) /\ NoRepeats(n) /\ AllFit(w, n, C)
<1>1. AllGuarded(t, ctl, n, h)
  <2>1. \A c \in Addr : Live(n, c) => Live(m, c) /\ n[c].lits = m[c].lits
    BY DEF Live
  <2> QED
    BY <2>1 DEF AllGuarded
<1>2. NoRepeats(n)
  BY DEF NoRepeats
<1>3. AllFit(w, n, C)
  <2> SUFFICES ASSUME NEW c \in C, ~n[c].garbage, NEW l \in Lit
               PROVE  Fits(w[l], c, l \in FirstTwo(n[c].lits))
    BY DEF AllFit
  <2>1. c \in Addr /\ ~m[c].garbage /\ n[c].lits = m[c].lits
    OBVIOUS
  <2> QED
    BY <2>1 DEF AllFit
<1> QED
  BY <1>1, <1>2, <1>3

\* Protected clauses are the ones that matter to the trail.
LEMMA ForcedBy ==
  ASSUME TypeOK, TrailHolds, Forced(trail, control, reason, mem),
         NEW n, \A c \in Protected : n[c].lits = mem[c].lits /\ (~mem[c].garbage => ~n[c].garbage)
  PROVE  Forced(trail, control, reason, n)
<1>1. UpperReasons(trail, control, reason, Protected)
  BY ProtectedInto
<1> SUFFICES ASSUME NEW i \in DOMAIN trail, Len(control) > 0, i > control[1], reason[Idx(trail[i])] # 0
             PROVE  /\ ~n[reason[Idx(trail[i])]].garbage
                    /\ Forces(trail, i, n[reason[Idx(trail[i])]].lits)
  BY DEF Forced
<1>2. PICK c : c = reason[Idx(trail[i])]
  OBVIOUS
<1>3. c \in Protected
  BY <1>1, <1>2 DEF UpperReasons
<1>4. ~mem[c].garbage /\ Forces(trail, i, mem[c].lits)
  BY <1>2 DEF Forced
<1> QED
  BY <1>2, <1>3, <1>4

LEMMA ProtectedLive ==
  ASSUME TypeOK, TrailHolds, Forced(trail, control, reason, mem), NEW c \in Protected
  PROVE  ~mem[c].garbage
<1> DEFINE C == {d \in Protected : ~mem[d].garbage}
<1>1. UpperReasons(trail, control, reason, Protected)
  BY ProtectedInto
<1>2. UpperReasons(trail, control, reason, C)
  <2> SUFFICES ASSUME NEW i \in DOMAIN trail, Len(control) > 0, i > control[1]
               PROVE  reason[Idx(trail[i])] \in C \cup {0}
    BY DEF UpperReasons
  <2>1. reason[Idx(trail[i])] \in Protected \cup {0}
    BY <1>1 DEF UpperReasons
  <2>2. reason[Idx(trail[i])] # 0 => ~mem[reason[Idx(trail[i])]].garbage
    BY DEF Forced
  <2> QED
    BY <2>1, <2>2
<1> HIDE DEF C
<1>3. Protected \subseteq C
  BY <1>2, ProtectedInto
<1> QED
  BY <1>3 DEF C

\* What is known during a reduction
LEMMA ReductionFacts ==
  ASSUME IInv, PInv
  PROVE  /\ TypeOK /\ TrailHolds /\ ListHolds /\ AtRest /\ NoRepeats(mem) /\ K \in SUBSET Addr
         /\ Forced(trail, control, reason, mem)
         /\ mem \in [Addr -> ClauseRecord]
         /\ watches \in [Lit -> Seq(WatchRecord)]
         /\ AllGuarded(trail, control, mem, Visited(conflict, control, propagated))
         /\ pc # "search" => conflict = 0 /\ propagated = Len(trail)
         /\ AllFit(watches, mem, IF Relocated THEN NewStore ELSE K)
         /\ Len(control) > 0 => control[Len(control)] <= propagated
BY StoreFacts DEF IInv, PInv, ConflictHolds, TypeOK, WatchRecord, LevelsSeen, Level

\* The trail stays, and what was visited.
LEMMA StaysHold ==
  ASSUME IInv, PInv, Stays, pc # "search" \/ Quiet, pc' # "search",
         NoRepeats(mem'), Forced(trail, control, reason', mem'),
         AllGuarded(trail, control, mem', Visited(conflict, control, propagated)),
         AllFit(watches', mem', IF pc' \in {"reasons", "delete"} THEN NewStore' ELSE K'),
         pc' \notin {"protect", "mark", "copy", "watches"} => AllBlock(watches', mem'),
         NoneIsGarbage', CopiesAlike'
  PROVE  PInv'
<1>1. propagated = Len(trail) /\ (Len(control) > 0 => control[Len(control)] <= propagated)
  BY ReductionFacts DEF Quiet
<1>2. trail' = trail /\ control' = control /\ propagated' = propagated /\ conflict' = conflict
  BY DEF Stays
<1>3. GarbageIsLong'
  BY DEF GarbageIsLong
<1>4. /\ Forced(trail', control', reason', mem') /\ propagated' = Len(trail')
      /\ AllGuarded(trail', control', mem', Visited(conflict', control', propagated'))
      /\ Len(control') > 0 => control'[Len(control')] <= propagated'
  BY <1>1, <1>2
<1> QED
  BY <1>3, <1>4, NextHolds

\* A reason holds no literal that is true on the root level, and not the negation of
\* its own.
LEMMA ReasonOpen ==
  ASSUME TypeOK, TrailHolds, NEW n \in DOMAIN trail, Level > 0, n > control[1],
         NEW lits, Forces(trail, n, lits)
  PROVE  /\ -trail[n] \notin RootLits
         /\ \A l \in ToSet(lits) : l \notin RootLits
<1>1. /\ \A m \in DOMAIN trail : trail[m] \in RootLits <=> Level = 0 \/ m <= control[1]
      /\ \A l : l \in RootLits => \E m \in DOMAIN trail : trail[m] = l /\ (Level = 0 \/ m <= control[1])
  BY RootIs
<1>2. -trail[n] \notin RootLits
  BY <1>1, NeverBoth
<1>3. Level \in Nat /\ control[1] \in Nat /\ Len(trail) \in Nat /\ DOMAIN trail = 1 .. Len(trail)
      /\ \A m \in 1 .. Len(trail) : trail[m] \in Lit
  <2>1. /\ Level \in Nat /\ \A j \in 1 .. Level : control[j] \in Nat
        /\ Len(trail) \in Nat /\ DOMAIN trail = 1 .. Len(trail)
        /\ \A m \in 1 .. Len(trail) : trail[m] \in Lit
    BY StoreFacts
  <2>2. 1 \in 1 .. Level
    BY <2>1
  <2> QED
    BY <2>1, <2>2
<1>4. ASSUME NEW l \in ToSet(lits), l \in RootLits PROVE FALSE
  <2>1. PICK m \in DOMAIN trail : trail[m] = l /\ m <= control[1]
    BY <1>1, <1>3, <1>4
  <2>2. l # trail[n]
    BY <1>1, <1>3, <1>4
  <2>3. PICK p \in 1 .. n : trail[p] = -l
    BY <2>2 DEF Forces
  <2>4. p \in DOMAIN trail
    BY <1>3
  <2> QED
    BY <2>1, <2>3, <2>4, NeverBoth
<1> QED
  BY <1>2, <1>4

\* A clause that no root literal satisfies has none that is false among the first two.
LEMMA FrontOpen ==
  ASSUME TypeOK, TrailHolds, NEW lits \in Seq(Lit), Len(lits) >= 2, NEW h, h = Len(trail),
         Guarded(trail, control, lits, h), \A l \in ToSet(lits) : l \notin RootLits, NEW i \in {1, 2}
  PROVE  lits[i] \in Lit /\ -lits[i] \notin RootLits
<1>1. /\ \A m \in DOMAIN trail : trail[m] \in RootLits <=> Level = 0 \/ m <= control[1]
      /\ \A l : l \in RootLits => \E m \in DOMAIN trail : trail[m] = l /\ (Level = 0 \/ m <= control[1])
  BY RootIs
<1>2. /\ Level \in Nat /\ Level = Len(control) /\ DOMAIN control = 1 .. Level
      /\ \A j \in 1 .. Level : control[j] \in Nat
      /\ Len(trail) \in Nat /\ DOMAIN trail = 1 .. Len(trail)
  BY StoreFacts
<1>3. lits[i] \in Lit
  <2>1. i \in 1 .. Len(lits)
    BY LenProperties
  <2> QED
    BY <2>1, ElementOfSeq
<1>4. ASSUME -lits[i] \in RootLits PROVE FALSE
  <2>1. PICK p \in DOMAIN trail : trail[p] = -lits[i] /\ (Level = 0 \/ p <= control[1])
    BY <1>1, <1>4
  <2>2. p <= h
    BY <1>2
  <2>3. PICK q \in DOMAIN trail : trail[q] \in ToSet(lits) /\ NotAbove(control, q, p)
    BY <2>1, <2>2 DEF Guarded
  <2>4. trail[q] \notin RootLits
    BY <2>3
  <2>5. Level # 0 /\ ~(q <= control[1])
    BY <1>1, <2>4
  <2>6. 1 \in DOMAIN control /\ control[1] \in Nat
    BY <1>2, <2>5
  <2>7. control[1] < q /\ p <= control[1]
    BY <1>2, <2>1, <2>5, <2>6
  <2>8. control[1] < p
    BY <2>3, <2>6, <2>7 DEF NotAbove
  <2> QED
    BY <1>2, <2>6, <2>7, <2>8
<1> QED
  BY <1>3, <1>4

\* What shrinking leaves of a clause that is not satisfied
LEMMA UnfixedIs ==
  ASSUME TypeOK, TrailHolds, NEW lits \in Seq(Lit), Len(lits) >= 2, IsInjective(lits), NEW h, h = Len(trail),
         Guarded(trail, control, lits, h), \A l \in ToSet(lits) : l \notin RootLits,
         NEW rest, rest = Unfixed(lits)
  PROVE  /\ IsInjective(rest) /\ Guarded(trail, control, rest, h)
         /\ \A l : l \in FirstTwo(rest) <=> l \in FirstTwo(lits)
         /\ \A l : l \in ToSet(rest) <=> l \in ToSet(lits) /\ -l \notin RootLits
<1> DEFINE T == {l \in Lit : -l \notin RootLits}
<1>1. lits[1] \in T /\ lits[2] \in T
  BY FrontOpen
<1>2. rest = Filtered(lits, T)
  BY DEF Unfixed
<1>3. \A l \in ToSet(lits) : l \in Lit
  BY LenProperties, ElementOfSeq DEF ToSet
<1>4. \A l : l \in T <=> l \in Lit /\ -l \notin RootLits
  OBVIOUS
<1> HIDE DEF T
<1>5. rest[1] = lits[1] /\ rest[2] = lits[2]
  BY <1>1, <1>2, FilteredFront
<1>6. IsInjective(rest) /\ ToSet(rest) = ToSet(lits) \cap T
  BY <1>2, FilteredInjective, FilteredIs
<1>7. \A l : l \in ToSet(rest) <=> l \in ToSet(lits) /\ -l \notin RootLits
  BY <1>3, <1>4, <1>6
<1>8. Guarded(trail, control, rest, h)
  <2> SUFFICES ASSUME NEW i \in {1, 2}, NEW p \in DOMAIN trail, p <= h, trail[p] = -rest[i]
               PROVE  \E q \in DOMAIN trail : trail[q] \in ToSet(rest) /\ NotAbove(control, q, p)
    BY DEF Guarded
  <2>1. trail[p] = -lits[i]
    BY <1>5
  <2>2. PICK q \in DOMAIN trail : trail[q] \in ToSet(lits) /\ NotAbove(control, q, p)
    BY <2>1 DEF Guarded
  <2>3. -trail[q] \notin RootLits
    BY NeverBoth, RootIs
  <2> QED
    BY <1>7, <2>2, <2>3
<1> QED
  BY <1>5, <1>6, <1>7, <1>8 DEF FirstTwo

LEMMA ReduceWatched ==
  ASSUME IInv, PInv, Reduce
  PROVE  PInv'
<1>1. /\ TypeOK /\ TrailHolds /\ AtRest /\ NoRepeats(mem) /\ K \in SUBSET Addr
      /\ Forced(trail, control, reason, mem) /\ mem \in [Addr -> ClauseRecord]
      /\ Quiet /\ pc = "search" /\ pc' = "protect" /\ conflict = 0 /\ propagated = Len(trail)
      /\ clauses' = clauses /\ watches' = watches /\ Stays /\ reason' = reason /\ K' = K
      /\ AllGuarded(trail, control, mem, Len(trail)) /\ AllFit(watches, mem, K)
      /\ Level = Len(control) /\ Level \in Nat
      /\ StoreIs(mem, K) /\ Protected \subseteq K
      /\ \A c \in Addr : mem[c].lits \in Seq(Lit)
  BY ReductionFacts, StoreFacts DEF Reduce, Quiet, search, Stays, Relocated, Visited, K, AtRest, ClauseRecord
<1>2. CASE mem' = mem
  BY <1>1, <1>2, StaysHold DEF Visited, NoneIsGarbage, CopiesAlike
<1>3. CASE mem' = [c \in Addr |-> IF c \in Shrinking THEN Shrunken(mem[c]) ELSE Marked(mem, Satisfied)[c]]
  <2>1. ASSUME NEW c \in Addr, c \notin Satisfied, c \notin Shrinking PROVE mem'[c] = mem[c]
    <3>1. Marked(mem, Satisfied)[c] = mem[c]
      BY <1>1, <2>1, MarkedIs
    <3> QED
      BY <1>3, <2>1, <3>1
  <2>2. ASSUME NEW c \in Shrinking
        PROVE  /\ c \in K /\ c \in Addr /\ ~mem[c].garbage /\ Len(mem[c].lits) >= 2
               /\ mem'[c].lits = Unfixed(mem[c].lits) /\ ~mem'[c].garbage
               /\ \A l \in ToSet(mem[c].lits) : l \notin RootLits
    <3>1. /\ c \in K /\ c \in Addr /\ ~mem[c].garbage /\ c \notin Satisfied
          /\ Len(Unfixed(mem[c].lits)) >= 2
      BY <1>1 DEF Shrinking, K
    <3>2. mem'[c] = Shrunken(mem[c])
      BY <1>3, <3>1
    <3>3. Shrunken(mem[c]).lits = Unfixed(mem[c].lits) /\ Shrunken(mem[c]).garbage = mem[c].garbage
      BY <1>1, <3>1, ShrunkenIs
    <3>4. \A l \in ToSet(mem[c].lits) : l \notin RootLits
      BY <3>1 DEF Satisfied, K
    <3>5. Len(mem[c].lits) >= 2
      BY <1>1, <3>1 DEF StoreIs
    <3> QED
      BY <3>1, <3>2, <3>3, <3>4, <3>5
  <2>3. ASSUME NEW c \in Satisfied PROVE c \in Addr /\ mem'[c].garbage /\ mem'[c].lits = mem[c].lits
    <3>1. c \in Addr /\ c \notin Shrinking
      BY <1>1 DEF Satisfied, Shrinking, K
    <3>2. Marked(mem, Satisfied)[c].garbage /\ Marked(mem, Satisfied)[c].lits = mem[c].lits
      BY <1>1, <3>1, MarkedIs
    <3> QED
      BY <1>3, <3>1, <3>2
  <2>4. ASSUME NEW c \in Shrinking
        PROVE  /\ IsInjective(mem'[c].lits) /\ Guarded(trail, control, mem'[c].lits, Len(trail))
               /\ \A l : l \in FirstTwo(mem'[c].lits) <=> l \in FirstTwo(mem[c].lits)
               /\ \A l : l \in ToSet(mem'[c].lits) <=> l \in ToSet(mem[c].lits) /\ -l \notin RootLits
    <3>1. Guarded(trail, control, mem[c].lits, Len(trail))
      BY <1>1, <2>2 DEF AllGuarded, Live
    <3>2. PICK lits : lits = mem[c].lits
      OBVIOUS
    <3>3. PICK rest : rest = mem'[c].lits
      OBVIOUS
    <3>4. PICK h : h = Len(trail)
      OBVIOUS
    <3>5. /\ lits \in Seq(Lit) /\ Len(lits) >= 2 /\ IsInjective(lits) /\ Guarded(trail, control, lits, h)
          /\ \A l \in ToSet(lits) : l \notin RootLits
          /\ rest = Unfixed(lits)
      BY <1>1, <2>2, <3>1, <3>2, <3>3, <3>4 DEF NoRepeats
    <3>6. /\ IsInjective(rest) /\ Guarded(trail, control, rest, h)
          /\ \A l : l \in FirstTwo(rest) <=> l \in FirstTwo(lits)
          /\ \A l : l \in ToSet(rest) <=> l \in ToSet(lits) /\ -l \notin RootLits
      BY ONLY <1>1, <3>4, <3>5, UnfixedIs
    <3> QED
      BY <3>2, <3>3, <3>4, <3>6
  <2>5. NoRepeats(mem')
    BY <1>1, <2>1, <2>3, <2>4 DEF NoRepeats
  <2>6. AllGuarded(trail, control, mem', Len(trail))
    <3> SUFFICES ASSUME NEW c \in Addr, Live(mem', c) PROVE Guarded(trail, control, mem'[c].lits, Len(trail))
      BY DEF AllGuarded
    <3>1. CASE c \in Shrinking
      BY <2>4, <3>1
    <3>2. CASE c \notin Shrinking
      <4>1. c \notin Satisfied
        BY <2>3 DEF Live
      <4>2. mem'[c] = mem[c] /\ Live(mem, c)
        BY <2>1, <3>2, <4>1 DEF Live
      <4> QED
        BY <1>1, <4>2 DEF AllGuarded
    <3> QED
      BY <3>1, <3>2
  <2>7. AllFit(watches, mem', K)
    <3> SUFFICES ASSUME NEW c \in K, ~mem'[c].garbage, NEW l \in Lit
                 PROVE  Fits(watches[l], c, l \in FirstTwo(mem'[c].lits))
      BY DEF AllFit
    <3>1. c \in Addr /\ c \notin Satisfied
      BY <1>1, <2>3
    <3>2. CASE c \in Shrinking
      <4>1. Fits(watches[l], c, l \in FirstTwo(mem[c].lits))
        BY <1>1, <2>2, <3>2 DEF AllFit
      <4>2. l \in FirstTwo(mem'[c].lits) <=> l \in FirstTwo(mem[c].lits)
        BY <2>4, <3>2
      <4> QED
        BY <4>1, <4>2 DEF Fits
    <3>3. CASE c \notin Shrinking
      <4>1. mem'[c] = mem[c]
        BY <2>1, <3>1, <3>3
      <4> QED
        BY <1>1, <4>1 DEF AllFit
    <3> QED
      BY <3>2, <3>3
  <2>8. Forced(trail, control, reason, mem')
    <3>1. UpperReasons(trail, control, reason, K)
      BY <1>1, ProtectedInto
    <3> SUFFICES ASSUME NEW n \in DOMAIN trail, Len(control) > 0, n > control[1], reason[Idx(trail[n])] # 0
                 PROVE  /\ ~mem'[reason[Idx(trail[n])]].garbage
                        /\ Forces(trail, n, mem'[reason[Idx(trail[n])]].lits)
      BY DEF Forced
    <3>2. PICK c : c = reason[Idx(trail[n])]
      OBVIOUS
    <3>3. c \in K /\ c \in Addr
      BY <1>1, <3>1, <3>2 DEF UpperReasons
    <3>4. ~mem[c].garbage /\ Forces(trail, n, mem[c].lits)
      BY <1>1, <3>2 DEF Forced
    <3>5. -trail[n] \notin RootLits /\ \A l \in ToSet(mem[c].lits) : l \notin RootLits
      BY <1>1, <3>4, ReasonOpen
    <3>6. c \notin Satisfied
      BY <3>5 DEF Satisfied
    <3>7. CASE c \in Shrinking
      <4>1. \A l : l \in ToSet(mem'[c].lits) <=> l \in ToSet(mem[c].lits) /\ -l \notin RootLits
        BY <2>4, <3>7
      <4>2. Forces(trail, n, mem'[c].lits)
        BY <3>4, <3>5, <4>1 DEF Forces
      <4> QED
        BY <2>2, <3>2, <3>7, <4>2
    <3>8. CASE c \notin Shrinking
      BY <2>1, <3>2, <3>3, <3>4, <3>6, <3>8
    <3> QED
      BY <3>7, <3>8
  <2> QED
    BY <1>1, <2>5, <2>6, <2>7, <2>8, StaysHold DEF Visited, NoneIsGarbage, CopiesAlike
<1> QED
  BY <1>2, <1>3 DEF Reduce

LEMMA ProtectReasonsWatched ==
  ASSUME IInv, PInv, ProtectReasons
  PROVE  PInv'
<1>1. /\ TypeOK /\ TrailHolds /\ NoRepeats(mem) /\ K \in SUBSET Addr
      /\ Forced(trail, control, reason, mem) /\ mem \in [Addr -> ClauseRecord]
      /\ pc = "protect" /\ pc' = "mark" /\ clauses' = clauses /\ watches' = watches /\ Stays /\ reason' = reason
      /\ K' = K /\ AllGuarded(trail, control, mem, Visited(conflict, control, propagated))
      /\ AllFit(watches, mem, K)
      /\ mem' = [c \in Addr |-> IF c \in Protected THEN [mem[c] EXCEPT !.reason = TRUE] ELSE mem[c]]
  BY ReductionFacts DEF ProtectReasons, search, Stays, Relocated, K
<1>2. \A c \in Addr : mem'[c].lits = mem[c].lits /\ mem'[c].garbage = mem[c].garbage
  BY <1>1, FlagIs
<1>3. /\ AllGuarded(trail, control, mem', Visited(conflict, control, propagated)) /\ NoRepeats(mem')
      /\ AllFit(watches, mem', K)
  BY <1>1, <1>2, FewerLive
<1>4. Protected \subseteq Addr
  BY <1>1, StoreFacts DEF IInv, AtRest
<1>5. Forced(trail, control, reason, mem')
  BY <1>1, <1>2, <1>4, ForcedBy
<1> QED
  BY <1>1, <1>3, <1>5, StaysHold DEF NoneIsGarbage, CopiesAlike

LEMMA MarkUselessWatched ==
  ASSUME IInv, PInv, MarkUseless
  PROVE  PInv'
<1>1. /\ TypeOK /\ TrailHolds /\ AtRest /\ NoRepeats(mem) /\ K \in SUBSET Addr
      /\ Forced(trail, control, reason, mem) /\ mem \in [Addr -> ClauseRecord]
      /\ pc = "mark" /\ pc' = "copy" /\ clauses' = clauses /\ watches' = watches /\ Stays /\ reason' = reason
      /\ K' = K /\ AllGuarded(trail, control, mem, Visited(conflict, control, propagated))
      /\ AllFit(watches, mem, K)
  BY ReductionFacts DEF MarkUseless, search, Stays, Relocated, K
<1>2. PICK C \in {Unused, Useless} : mem' = Marked(Aged(mem), C)
  BY DEF MarkUseless
<1>3. \A c \in C : ~mem[c].reason
  BY <1>2 DEF Unused, Useless, Reducible
<1>4. /\ Aged(mem) \in [Addr -> ClauseRecord]
      /\ \A c \in Addr : Aged(mem)[c].lits = mem[c].lits /\ Aged(mem)[c].garbage = mem[c].garbage
  BY <1>1, AgedIs
<1>5. \A c \in Addr : /\ mem'[c].lits = mem[c].lits /\ (~mem'[c].garbage => ~mem[c].garbage)
                      /\ c \notin C => mem'[c].garbage = mem[c].garbage
  <2>1. PICK m : m = Aged(mem)
    OBVIOUS
  <2>2. m \in [Addr -> ClauseRecord] /\ mem' = Marked(m, C)
    BY <1>2, <1>4, <2>1
  <2>3. \A c \in Addr : /\ mem'[c].lits = m[c].lits /\ (c \in C => mem'[c].garbage)
                        /\ c \notin C => mem'[c] = m[c]
    BY ONLY <2>2, MarkedIs
  <2>4. \A c \in Addr : m[c].lits = mem[c].lits /\ m[c].garbage = mem[c].garbage
    BY <1>4, <2>1
  <2> QED
    BY <2>3, <2>4
<1>6. /\ AllGuarded(trail, control, mem', Visited(conflict, control, propagated)) /\ NoRepeats(mem')
      /\ AllFit(watches, mem', K)
  BY <1>1, <1>5, FewerLive, ZenonT(60)
<1>7. Protected \subseteq Addr /\ \A c \in Protected : c \notin C
  BY <1>1, <1>3, StoreFacts DEF AtRest
<1>8. Forced(trail, control, reason, mem')
  BY <1>1, <1>5, <1>7, ForcedBy
<1> QED
  BY <1>1, <1>6, <1>8, StaysHold DEF NoneIsGarbage, CopiesAlike

LEMMA UnprotectReasonsWatched ==
  ASSUME IInv, PInv, UnprotectReasons
  PROVE  PInv'
<1>1. /\ TypeOK /\ TrailHolds /\ NoRepeats(mem) /\ K \in SUBSET Addr
      /\ Forced(trail, control, reason, mem) /\ mem \in [Addr -> ClauseRecord]
      /\ pc = "unprotect" /\ pc' = "search" /\ clauses' = clauses /\ watches' = watches /\ Stays /\ reason' = reason
      /\ K' = K /\ AllGuarded(trail, control, mem, Visited(conflict, control, propagated))
      /\ AllFit(watches, mem, K) /\ AllBlock(watches, mem) /\ \A c \in K : ~mem[c].garbage
      /\ mem' = [c \in Addr |-> IF c \in Protected THEN [mem[c] EXCEPT !.reason = FALSE] ELSE mem[c]]
      /\ Len(control) > 0 => control[Len(control)] <= propagated
      /\ Protected \subseteq K /\ AllInto(watches, K)
  BY ReductionFacts DEF UnprotectReasons, search, Stays, Relocated, K, PInv, NoneIsGarbage, AtRest
<1>2. \A c \in Addr : mem'[c].lits = mem[c].lits /\ mem'[c].garbage = mem[c].garbage
  BY <1>1, FlagIs
<1>3. /\ AllGuarded(trail, control, mem', Visited(conflict, control, propagated)) /\ NoRepeats(mem')
      /\ AllFit(watches, mem', K)
  BY <1>1, <1>2, FewerLive
<1>4. Forced(trail, control, reason, mem')
  BY <1>1, <1>2, ForcedBy
<1>5. AllBlock(watches, mem')
  <2>1. Alike(mem, mem')
    BY <1>2 DEF Alike
  <2> SUFFICES ASSUME NEW l \in Lit PROVE Blocks(watches[l], mem', l)
    BY DEF AllBlock
  <2>2. \A i \in DOMAIN watches[l] : watches[l][i].clause \in Addr
    BY <1>1 DEF AllInto, Into
  <2>3. Blocks(watches[l], mem, l)
    BY <1>1 DEF AllBlock
  <2> QED
    BY <2>1, <2>2, <2>3, BlocksAlike
<1>6. GarbageIsLong' /\ NoneIsGarbage' /\ CopiesAlike'
  BY <1>1, <1>2 DEF GarbageIsLong, NoneIsGarbage, CopiesAlike
<1>7. /\ trail' = trail /\ control' = control /\ propagated' = propagated /\ conflict' = conflict
  BY <1>1 DEF Stays
<1>8. AllGuarded(trail', control', mem', Visited(conflict', control', propagated'))
      /\ Forced(trail', control', reason', mem')
  BY <1>1, <1>3, <1>4, <1>7
<1> QED
  BY <1>1, <1>3, <1>5, <1>6, <1>7, <1>8, NextHolds

\* The copies have the literals of what they are copies of, and what stays is live.
LEMMA CopyClausesWatched ==
  ASSUME IInv, PInv, CopyClauses
  PROVE  PInv'
<1>1. /\ TypeOK /\ TrailHolds /\ ListHolds /\ AtRest /\ NoRepeats(mem) /\ K \in SUBSET Addr
      /\ Forced(trail, control, reason, mem) /\ mem \in [Addr -> ClauseRecord]
      /\ pc = "copy" /\ pc' = "watches" /\ clauses' = clauses /\ watches' = watches /\ Stays /\ reason' = reason
      /\ K' = K /\ AllGuarded(trail, control, mem, Visited(conflict, control, propagated))
      /\ AllFit(watches, mem, K)
      /\ mem' = IF collections = 0 THEN mem ELSE MovedMem(Filtered(clauses, Staying), FreeAddr)
  BY ReductionFacts DEF CopyClauses, search, Stays, Relocated, K
<1>2. /\ Protected \subseteq K /\ 0 \notin Addr /\ Staying \subseteq K
      /\ \A c \in Addr : Moved(c) = c /\ mem[c].copy = 0 /\ (mem[c].reason <=> c \in Protected)
  BY <1>1, StoreFacts, StayingIs, NothingMoved DEF AtRest
<1>3. \A c \in Staying : c \in K /\ c \in Addr /\ ~mem[c].garbage
  <2>1. \A c \in Protected : ~mem[c].garbage
    BY <1>1, ProtectedLive
  <2>2. ASSUME NEW c \in Staying PROVE c \in K /\ c \in Addr /\ ~Collects(c)
    BY <1>1, <1>2 DEF Staying
  <2> QED
    BY <1>2, <2>1, <2>2 DEF Collects
<1>4. CASE collections = 0
  <2>1. mem' = mem
    BY <1>1, <1>4
  <2>2. Staying' = Staying /\ \A c : Moved(c)' = Moved(c)
    BY <1>1, <2>1, StoreUnchanged
  <2>3. CopiesAlike'
    BY <1>2, <1>3, <2>1, <2>2 DEF CopiesAlike
  <2> QED
    BY <1>1, <2>1, <2>3, StaysHold DEF NoneIsGarbage
<1>5. CASE collections # 0
  <2>1. PICK s : s = Filtered(clauses, Staying)
    OBVIOUS
  <2>2. PICK to : to = FreeAddr
    OBVIOUS
  <2>3. mem' = MovedMem(s, to)
    BY <1>1, <1>5, <2>1, <2>2
  <2>4. \A n \in DOMAIN s :
          /\ s[n] \in Staying /\ s[n] \in Addr /\ to[n] \in Addr \ K
          /\ mem'[to[n]] = mem[s[n]] /\ \A c : c = s[n] => Moved(c)' = to[n]
    BY <1>1, <2>1, <2>2, <2>3, CopiesMade
  <2>5. /\ \A c \in K : mem'[c].lits = mem[c].lits /\ mem'[c].garbage = mem[c].garbage
        /\ \A c \in Staying : \E n \in DOMAIN s : c = s[n]
        /\ \A c \in Addr : c \in K \/ (\E n \in DOMAIN s : to[n] = c) \/ mem'[c] = mem[c]
        /\ Staying' = Staying
    BY <1>1, <2>1, <2>2, <2>3, CopiesMade
  <2>6. ASSUME NEW c \in Addr
        PROVE  \E d \in Addr : mem'[c].lits = mem[d].lits /\ mem'[c].garbage = mem[d].garbage
    BY <2>4, <2>5
  <2>7. NoRepeats(mem')
    BY <1>1, <2>6 DEF NoRepeats
  <2>8. AllGuarded(trail, control, mem', Visited(conflict, control, propagated))
    <3> SUFFICES ASSUME NEW c \in Addr, Live(mem', c)
                 PROVE  Guarded(trail, control, mem'[c].lits, Visited(conflict, control, propagated))
      BY DEF AllGuarded
    <3>1. PICK d \in Addr : mem'[c].lits = mem[d].lits /\ mem'[c].garbage = mem[d].garbage
      BY <2>6
    <3>2. Live(mem, d)
      BY <3>1 DEF Live
    <3> QED
      BY <1>1, <3>1, <3>2 DEF AllGuarded
  <2>9. AllFit(watches, mem', K)
    BY <1>1, <2>5 DEF AllFit
  <2>10. Forced(trail, control, reason, mem')
    BY <1>1, <1>2, <2>5, ForcedBy
  <2>11. CopiesAlike'
    <3> SUFFICES ASSUME NEW c \in Staying, NEW d, d = Moved(c)'
                 PROVE  ~mem'[c].garbage /\ ~mem'[d].garbage /\ mem'[d].lits = mem'[c].lits
      BY <2>5 DEF CopiesAlike
    <3>1. PICK n \in DOMAIN s : c = s[n]
      BY <2>5
    <3>2. mem'[d] = mem[c]
      BY <2>4, <3>1
    <3> QED
      BY <1>3, <2>5, <3>2
  <2> QED
    BY <1>1, <2>7, <2>8, <2>9, <2>10, <2>11, StaysHold DEF NoneIsGarbage
<1> QED
  BY <1>4, <1>5

\* Sequences of watches: what a filter and a concatenation leave
Drawn(f, s, T) == \A n \in DOMAIN f : \E k \in DOMAIN s : f[n] = s[k] /\ s[k] \in T
LEMMA FilteredWithin ==
  ASSUME NEW s \in Seq(WatchRecord), NEW T, NEW f, f = Filtered(s, T)
  PROVE  f \in Seq(WatchRecord) /\ Drawn(f, s, T)
<1>1. /\ f \in Seq(WatchRecord) /\ ToSet(f) = ToSet(s) \cap T
  BY FilteredIs
<1> QED
  BY <1>1, ZenonT(60) DEF ToSet, Drawn

LEMMA FilteredFits ==
  ASSUME NEW s \in Seq(WatchRecord), NEW T, NEW c, NEW f, f = Filtered(s, T)
  PROVE  /\ f \in Seq(WatchRecord) /\ \A n \in DOMAIN f : \E k \in DOMAIN s : f[n] = s[k] /\ s[k] \in T
         /\ Never(s, c) => Never(f, c)
         /\ (\A n \in DOMAIN s : s[n].clause = c => s[n] \notin T) => Never(f, c)
         /\ (Once(s, c) /\ \A n \in DOMAIN s : s[n].clause = c => s[n] \in T) => Once(f, c)
<1>1. /\ f \in Seq(WatchRecord) /\ ToSet(f) = ToSet(s) \cap T
      /\ \E p \in [DOMAIN f -> DOMAIN s] :
           /\ \A k \in DOMAIN f : f[k] = s[p[k]]
           /\ \A j, k \in DOMAIN f : j < k => p[j] < p[k]
  BY FilteredIs, SMTT(60)
<1>2. PICK p \in [DOMAIN f -> DOMAIN s] :
        /\ \A k \in DOMAIN f : f[k] = s[p[k]]
        /\ \A j, k \in DOMAIN f : j < k => p[j] < p[k]
  BY <1>1
<1>3. /\ DOMAIN s = 1 .. Len(s) /\ Len(s) \in Nat /\ DOMAIN f = 1 .. Len(f) /\ Len(f) \in Nat
  BY <1>1, LenProperties
<1>4. ASSUME NEW n \in DOMAIN f PROVE p[n] \in DOMAIN s /\ f[n] = s[p[n]] /\ s[p[n]] \in T
  <2>1. f[n] \in ToSet(f)
    BY DEF ToSet
  <2> QED
    BY <1>1, <1>2, <2>1
<1>5. \A j, k \in DOMAIN f : p[j] = p[k] => j = k
  <2> SUFFICES ASSUME NEW j \in DOMAIN f, NEW k \in DOMAIN f, p[j] = p[k] PROVE j = k
    OBVIOUS
  <2>1. p[j] \in Nat /\ p[k] \in Nat /\ j \in Nat /\ k \in Nat
    BY <1>3, <1>4
  <2>2. ~(j < k) /\ ~(k < j)
    BY <1>2, <2>1
  <2> QED
    BY <2>1, <2>2
<1>6. Never(s, c) => Never(f, c)
  BY <1>4 DEF Never
<1>7. (\A n \in DOMAIN s : s[n].clause = c => s[n] \notin T) => Never(f, c)
  BY <1>4 DEF Never
<1>8. ASSUME Once(s, c), \A n \in DOMAIN s : s[n].clause = c => s[n] \in T PROVE Once(f, c)
  <2>1. PICK n \in DOMAIN s : \A m \in DOMAIN s : s[m].clause = c <=> m = n
    BY <1>8 DEF Once
  <2>2. s[n].clause = c /\ s[n] \in T
    BY <1>8, <2>1
  <2>3. s[n] \in ToSet(f)
    BY <1>1, <2>2 DEF ToSet
  <2>4. PICK k \in DOMAIN f : f[k] = s[n]
    BY <2>3 DEF ToSet
  <2>5. p[k] = n
    BY <1>4, <2>1, <2>2, <2>4
  <2>6. ASSUME NEW m \in DOMAIN f PROVE f[m].clause = c <=> m = k
    BY <1>4, <1>5, <2>1, <2>2, <2>4, <2>5
  <2> QED
    BY <2>6 DEF Once
<1> QED
  BY <1>1, <1>4, <1>6, <1>7, <1>8

LEMMA FilteredNever ==
  ASSUME NEW s \in Seq(WatchRecord), NEW T, NEW c, NEW f, f = Filtered(s, T),
         Never(s, c) \/ \A n \in DOMAIN s : s[n].clause = c => s[n] \notin T
  PROVE  Never(f, c)
<1>1. Drawn(f, s, T)
  BY FilteredWithin
<1> QED
  BY <1>1 DEF Never, Drawn

LEMMA FilteredOnce ==
  ASSUME NEW s \in Seq(WatchRecord), NEW T, NEW c, NEW f, f = Filtered(s, T),
         Once(s, c), \A n \in DOMAIN s : s[n].clause = c => s[n] \in T
  PROVE  Once(f, c)
<1>1. (Once(s, c) /\ \A n \in DOMAIN s : s[n].clause = c => s[n] \in T) => Once(f, c)
  BY FilteredFits
<1> QED
  BY ONLY <1>1, Once(s, c), \A n \in DOMAIN s : s[n].clause = c => s[n] \in T

Joined(v, a, b) ==
  \A n \in DOMAIN v : (\E k \in DOMAIN a : v[n] = a[k]) \/ (\E k \in DOMAIN b : v[n] = b[k])

LEMMA ConcatWithin ==
  ASSUME NEW a \in Seq(WatchRecord), NEW b \in Seq(WatchRecord), NEW v, v = a \o b
  PROVE  Joined(v, a, b)
<1> DEFINE M == Len(a)
<1> DEFINE N == Len(b)
<1>1. /\ M \in Nat /\ N \in Nat /\ DOMAIN a = 1 .. M /\ DOMAIN b = 1 .. N
      /\ v \in Seq(WatchRecord) /\ Len(v) = M + N
      /\ \A i \in 1 .. M + N : v[i] = IF i <= M THEN a[i] ELSE b[i - M]
  <2>1. /\ a \o b \in Seq(WatchRecord) /\ Len(a \o b) = M + N
        /\ \A i \in 1 .. M + N : (a \o b)[i] = IF i <= M THEN a[i] ELSE b[i - M]
    BY ConcatProperties
  <2>2. M \in Nat /\ N \in Nat /\ DOMAIN a = 1 .. M /\ DOMAIN b = 1 .. N
    BY LenProperties
  <2> QED
    BY <2>1, <2>2
<1>2. DOMAIN v = 1 .. M + N
  BY <1>1, LenProperties
<1> HIDE DEF M, N
<1>3. \A n \in 1 .. M + N : n \in 1 .. M \/ n - M \in 1 .. N
  BY <1>1
<1>4. /\ \A k \in 1 .. M : k \in 1 .. M + N /\ v[k] = a[k]
      /\ \A k \in 1 .. N : k + M \in 1 .. M + N /\ v[k + M] = b[k] /\ k + M \notin 1 .. M
  <2>1. ASSUME NEW k \in 1 .. M PROVE k \in 1 .. M + N /\ v[k] = a[k]
    <3>1. k \in 1 .. M + N /\ k <= M
      BY <1>1
    <3> QED
      BY <1>1, <3>1
  <2>2. ASSUME NEW k \in 1 .. N PROVE k + M \in 1 .. M + N /\ v[k + M] = b[k] /\ k + M \notin 1 .. M
    <3>1. k + M \in 1 .. M + N /\ ~(k + M <= M) /\ (k + M) - M = k /\ k + M \notin 1 .. M
      BY <1>1
    <3> QED
      BY <1>1, <3>1
  <2> QED
    BY <2>1, <2>2
<1>5. \A n \in 1 .. M + N : n \in 1 .. M \/ \E k \in 1 .. N : n = k + M
  <2> SUFFICES ASSUME NEW n \in 1 .. M + N, n \notin 1 .. M PROVE \E k \in 1 .. N : n = k + M
    OBVIOUS
  <2>1. n - M \in 1 .. N /\ n = (n - M) + M
    BY <1>1, <1>3
  <2> QED
    BY <2>1
<1>6. \A n \in DOMAIN v : (\E k \in DOMAIN a : v[n] = a[k]) \/ (\E k \in DOMAIN b : v[n] = b[k])
  <2>1. ASSUME NEW n \in 1 .. M + N PROVE (\E k \in 1 .. M : v[n] = a[k]) \/ (\E k \in 1 .. N : v[n] = b[k])
    <3>1. CASE n \in 1 .. M
      BY <1>4, <3>1
    <3>2. CASE \E k \in 1 .. N : n = k + M
      BY <1>4, <3>2
    <3> QED
      BY <1>5, <3>1, <3>2
  <2> QED
    BY <1>1, <1>2, <2>1
<1> QED
  BY <1>6 DEF Joined

LEMMA ConcatFits ==
  ASSUME NEW a \in Seq(WatchRecord), NEW b \in Seq(WatchRecord), NEW c, NEW v, v = a \o b
  PROVE  /\ Never(a, c) /\ Never(b, c) => Never(v, c)
         /\ Once(a, c) /\ Never(b, c) => Once(v, c)
         /\ Never(a, c) /\ Once(b, c) => Once(v, c)
<1> DEFINE M == Len(a)
<1> DEFINE N == Len(b)
<1>1. /\ M \in Nat /\ N \in Nat /\ DOMAIN a = 1 .. M /\ DOMAIN b = 1 .. N
      /\ v \in Seq(WatchRecord) /\ Len(v) = M + N
      /\ \A i \in 1 .. M + N : v[i] = IF i <= M THEN a[i] ELSE b[i - M]
  <2>1. /\ a \o b \in Seq(WatchRecord) /\ Len(a \o b) = M + N
        /\ \A i \in 1 .. M + N : (a \o b)[i] = IF i <= M THEN a[i] ELSE b[i - M]
    BY ConcatProperties
  <2>2. M \in Nat /\ N \in Nat /\ DOMAIN a = 1 .. M /\ DOMAIN b = 1 .. N
    BY LenProperties
  <2> QED
    BY <2>1, <2>2
<1>2. DOMAIN v = 1 .. M + N
  BY <1>1, LenProperties
<1> HIDE DEF M, N
<1>3. \A n \in 1 .. M + N : n \in 1 .. M \/ n - M \in 1 .. N
  BY <1>1
<1>4. /\ \A k \in 1 .. M : k \in 1 .. M + N /\ v[k] = a[k]
      /\ \A k \in 1 .. N : k + M \in 1 .. M + N /\ v[k + M] = b[k] /\ k + M \notin 1 .. M
  <2>1. ASSUME NEW k \in 1 .. M PROVE k \in 1 .. M + N /\ v[k] = a[k]
    <3>1. k \in 1 .. M + N /\ k <= M
      BY <1>1
    <3> QED
      BY <1>1, <3>1
  <2>2. ASSUME NEW k \in 1 .. N PROVE k + M \in 1 .. M + N /\ v[k + M] = b[k] /\ k + M \notin 1 .. M
    <3>1. k + M \in 1 .. M + N /\ ~(k + M <= M) /\ (k + M) - M = k /\ k + M \notin 1 .. M
      BY <1>1
    <3> QED
      BY <1>1, <3>1
  <2> QED
    BY <2>1, <2>2
<1>5. \A n \in 1 .. M + N : n \in 1 .. M \/ \E k \in 1 .. N : n = k + M
  <2> SUFFICES ASSUME NEW n \in 1 .. M + N, n \notin 1 .. M PROVE \E k \in 1 .. N : n = k + M
    OBVIOUS
  <2>1. n - M \in 1 .. N /\ n = (n - M) + M
    BY <1>1, <1>3
  <2> QED
    BY <2>1
<1>6. ASSUME Never(a, c), Never(b, c) PROVE Never(v, c)
  <2>1. /\ \A k \in 1 .. M : a[k].clause # c
        /\ \A k \in 1 .. N : b[k].clause # c
    BY <1>1, <1>6 DEF Never
  <2>2. ASSUME NEW m \in 1 .. M + N PROVE v[m].clause # c
    <3>1. CASE m \in 1 .. M
      BY <1>4, <2>1, <3>1
    <3>2. CASE \E k \in 1 .. N : m = k + M
      BY <1>4, <2>1, <3>2, ZenonT(60)
    <3> QED
      BY <1>5, <3>1, <3>2
  <2> QED
    BY <1>2, <2>2 DEF Never
<1>7. ASSUME Once(a, c), Never(b, c) PROVE Once(v, c)
  <2>0. PICK n \in DOMAIN a : \A m \in DOMAIN a : a[m].clause = c <=> m = n
    BY ONLY <1>7 DEF Once
  <2>1. n \in 1 .. M /\ \A m \in 1 .. M : a[m].clause = c <=> m = n
    BY <1>1, <2>0
  <2>2. \A k \in 1 .. N : b[k].clause # c
    BY <1>1, <1>7 DEF Never
  <2>3. ASSUME NEW m \in 1 .. M + N PROVE v[m].clause = c <=> m = n
    <3>1. CASE m \in 1 .. M
      BY <1>4, <2>1, <3>1
    <3>2. CASE \E k \in 1 .. N : m = k + M
      BY ONLY <1>4, <2>1, <2>2, <3>2
    <3> QED
      BY <1>5, <3>1, <3>2
  <2>4. n \in DOMAIN v /\ \A m \in DOMAIN v : v[m].clause = c <=> m = n
    BY <1>2, <1>4, <2>1, <2>3
  <2> QED
    BY ONLY <2>4 DEF Once
<1>8. ASSUME Never(a, c), Once(b, c) PROVE Once(v, c)
  <2>0. PICK n \in DOMAIN b : \A m \in DOMAIN b : b[m].clause = c <=> m = n
    BY ONLY <1>8 DEF Once
  <2>1. n \in 1 .. N /\ \A m \in 1 .. N : b[m].clause = c <=> m = n
    BY <1>1, <2>0
  <2>2. \A k \in 1 .. M : a[k].clause # c
    BY <1>1, <1>8 DEF Never
  <2>3. ASSUME NEW m \in 1 .. M + N PROVE v[m].clause = c <=> m = n + M
    <3>1. CASE m \in 1 .. M
      BY <1>4, <2>1, <2>2, <3>1
    <3>2. CASE m \notin 1 .. M
      <4>1. PICK k \in 1 .. N : m = k + M
        BY <1>5, <3>2
      <4>2. k \in Int /\ n \in Int /\ M \in Int /\ m = k + M
        BY <1>1, <2>1, <4>1
      <4>3. k = n <=> m = n + M
        BY ONLY <4>2
      <4> QED
        BY <1>4, <2>1, <4>1, <4>3
    <3> QED
      BY <3>1, <3>2
  <2>4. n + M \in DOMAIN v /\ \A m \in DOMAIN v : v[m].clause = c <=> m = n + M
    BY <1>2, <1>4, <2>1, <2>3
  <2> QED
    BY ONLY <2>4 DEF Once
<1> QED
  BY <1>6, <1>7, <1>8

LEMMA ConcatNever ==
  ASSUME NEW a \in Seq(WatchRecord), NEW b \in Seq(WatchRecord), NEW c, NEW v, v = a \o b,
         Never(a, c), Never(b, c)
  PROVE  Never(v, c)
BY ConcatFits

LEMMA ConcatOnce ==
  ASSUME NEW a \in Seq(WatchRecord), NEW b \in Seq(WatchRecord), NEW c, NEW v, v = a \o b,
         (Once(a, c) /\ Never(b, c)) \/ (Never(a, c) /\ Once(b, c))
  PROVE  Once(v, c)
BY ConcatFits


\* What flush_watches leaves of the watches of a literal: those of the clauses that
\* stay, redirected, with the size and a literal of the clause.
Redirected(ws, old) ==
  /\ \A n \in DOMAIN old : old[n].clause \in Staying
  /\ DOMAIN ws = DOMAIN old /\ \A n \in DOMAIN ws : ws[n].clause = Moved(old[n].clause)

LEMMA FlushedBlocks ==
  ASSUME IInv, PInv, pc = "watches", NEW l \in Lit,
         NEW old, old = Filtered(watches[l], {w \in ToSet(watches[l]) : ~Collects(w.clause)}),
         NEW ws, ws = [n \in DOMAIN old |-> Flushed(old[n], l)]
  PROVE  /\ ws \in Seq(WatchRecord) /\ Blocks(ws, mem, l)
         /\ Redirected(ws, old)
<1>1. /\ TypeOK /\ ListHolds /\ Relocating /\ watches[l] \in Seq(WatchRecord) /\ Into(watches[l], K)
      /\ Staying \subseteq K /\ K \subseteq Addr /\ NoRepeats(mem)
      /\ \A a \in Staying : Moved(a) \in NewStore
  BY StayingIs, StoreFacts, NewStoreIs
     DEF IInv, TypeOK, WatchRecord, Relocating, AllInto, PInv, Relocated, NewStore
<1>2. PICK s : s = watches[l]
  OBVIOUS
<1>3. PICK T : T = {w \in ToSet(s) : ~Collects(w.clause)}
  OBVIOUS
<1>4. \A w : w \in T <=> w \in ToSet(s) /\ ~Collects(w.clause)
  BY <1>3
<1>5. s \in Seq(WatchRecord) /\ old = Filtered(s, T) /\ Into(s, K)
  BY <1>1, <1>2, <1>3
<1>6. Drawn(old, s, T)
  BY ONLY <1>5, FilteredWithin
<1>7. \A n \in DOMAIN old : old[n].clause \in Staying
  <2> SUFFICES ASSUME NEW n \in DOMAIN old PROVE old[n].clause \in Staying
    OBVIOUS
  <2>1. PICK k \in DOMAIN s : old[n] = s[k] /\ s[k] \in T
    BY <1>6 DEF Drawn
  <2>2. old[n].clause \in K /\ ~Collects(old[n].clause)
    BY <1>4, <1>5, <2>1 DEF Into
  <2> QED
    BY <2>2 DEF Staying, K
<1>8. DOMAIN ws = DOMAIN old /\ \A n \in DOMAIN ws : ws[n] = Flushed(old[n], l)
  BY SMTT(60)
<1>9. ASSUME NEW n \in DOMAIN ws
      PROVE  /\ ws[n].clause = Moved(old[n].clause)
             /\ ws[n].size = Len(mem[ws[n].clause].lits)
             /\ ws[n].blit \in ToSet(mem[ws[n].clause].lits) /\ ws[n].blit # l
  <2>1. PICK a : a = Moved(old[n].clause)
    OBVIOUS
  <2>2. PICK lits : lits = mem[a].lits
    OBVIOUS
  <2>3. a \in NewStore /\ a \in Addr /\ lits \in Seq(Lit) /\ Len(lits) >= 2 /\ IsInjective(lits)
    BY <1>1, <1>7, <1>8, <2>1, <2>2, NewStoreIs, ZenonT(60) DEF NoRepeats
  <2>4. ws[n] = [clause |-> a, blit |-> IF lits[1] = l THEN lits[2] ELSE lits[1], size |-> Len(lits)]
    BY <1>8, <2>1, <2>2 DEF Flushed, Watch
  <2>5. Len(lits) \in Nat /\ DOMAIN lits = 1 .. Len(lits) /\ 1 \in DOMAIN lits /\ 2 \in DOMAIN lits
    BY <2>3, LenProperties
  <2>6. lits[1] \in ToSet(lits) /\ lits[2] \in ToSet(lits) /\ lits[1] # lits[2]
    BY <2>3, <2>5 DEF ToSet, IsInjective
  <2>7. ws[n].clause = a /\ ws[n].size = Len(lits) /\ ws[n].blit \in ToSet(lits) /\ ws[n].blit # l
    BY ONLY <2>4, <2>6
  <2> QED
    BY <2>1, <2>2, <2>7
<1>10. ws \in Seq(WatchRecord)
  BY FlushedInto, <1>1
<1>11. Blocks(ws, mem, l)
  BY <1>9 DEF Blocks
<1> QED
  BY <1>7, <1>8, <1>9, <1>10, <1>11 DEF Redirected

LEMMA FlushedFits ==
  ASSUME IInv, PInv, pc = "watches", NEW l \in Lit,
         NEW old, old = Filtered(watches[l], {w \in ToSet(watches[l]) : ~Collects(w.clause)}),
         NEW ws, ws = [n \in DOMAIN old |-> Flushed(old[n], l)], NEW c \in Staying
  PROVE  /\ l \notin FirstTwo(mem[c].lits) => Never(ws, Moved(c))
         /\ l \in FirstTwo(mem[c].lits) => Once(ws, Moved(c))
<1>1. /\ TypeOK /\ ListHolds /\ watches[l] \in Seq(WatchRecord)
      /\ AllFit(watches, mem, K) /\ Staying \subseteq K
      /\ \A a, d \in Staying : Moved(a) = Moved(d) => a = d
  BY StayingIs, StoreFacts, NewStoreIs DEF IInv, TypeOK, WatchRecord, Relocating, PInv, Relocated
<1>2. PICK s : s = watches[l]
  OBVIOUS
<1>3. PICK T : T = {w \in ToSet(s) : ~Collects(w.clause)}
  OBVIOUS
<1>4. \A w : w \in T <=> w \in ToSet(s) /\ ~Collects(w.clause)
  BY <1>3
<1>5. s \in Seq(WatchRecord) /\ old = Filtered(s, T)
  BY <1>1, <1>2, <1>3
<1>6. c \in K /\ ~mem[c].garbage /\ ~Collects(c)
  BY <1>1 DEF PInv, CopiesAlike, Staying
<1>7. \A n \in DOMAIN s : s[n].clause = c => s[n] \in T
  BY <1>4, <1>6 DEF ToSet
<1>8. /\ \A n \in DOMAIN old : old[n].clause \in Staying
      /\ DOMAIN ws = DOMAIN old /\ \A n \in DOMAIN ws : ws[n].clause = Moved(old[n].clause)
  <2>1. Blocks(ws, mem, l) /\ Redirected(ws, old)
    BY FlushedBlocks
  <2> QED
    BY <2>1 DEF Redirected
<1>9. PICK d : d = Moved(c)
  OBVIOUS
<1>10. \A n \in DOMAIN old : ws[n].clause = d <=> old[n].clause = c
  BY <1>1, <1>8, <1>9
<1>11. Fits(s, c, l \in FirstTwo(mem[c].lits))
  BY <1>1, <1>2, <1>6 DEF AllFit
<1>12. CASE l \in FirstTwo(mem[c].lits)
  <2>1. Once(s, c)
    BY <1>11, <1>12 DEF Fits
  <2>2. Once(old, c)
    BY ONLY <1>5, <1>7, <2>1, FilteredOnce
  <2>3. PICK n \in DOMAIN old : \A m \in DOMAIN old : old[m].clause = c <=> m = n
    BY ONLY <2>2 DEF Once
  <2>4. n \in DOMAIN ws /\ \A m \in DOMAIN ws : ws[m].clause = d <=> m = n
    BY <1>8, <1>10, <2>3
  <2>5. Once(ws, d)
    BY ONLY <2>4 DEF Once
  <2> QED
    BY <1>9, <1>12, <2>5
<1>13. CASE l \notin FirstTwo(mem[c].lits)
  <2>1. Never(s, c)
    BY <1>11, <1>13 DEF Fits
  <2>2. Never(old, c)
    BY ONLY <1>5, <2>1, FilteredNever
  <2>3. Never(ws, d)
    BY <1>8, <1>10, <2>2 DEF Never
  <2> QED
    BY <1>9, <1>13, <2>3
<1> QED
  BY <1>12, <1>13

\* Binary watches first: it is the same set of watches.
Parted(ws, S, T) == \A w \in ToSet(ws) : w \in S <=> w \notin T
SameWatches(v, ws) ==
  /\ \A n \in DOMAIN v : \E k \in DOMAIN ws : v[n] = ws[k]
  /\ \A c : Never(ws, c) => Never(v, c)
  /\ \A c : Once(ws, c) => Once(v, c)
LEMMA BinaryFits ==
  ASSUME NEW ws \in Seq(WatchRecord), NEW S, NEW T, Parted(ws, S, T),
         NEW v, v = Filtered(ws, S) \o Filtered(ws, T)
  PROVE  SameWatches(v, ws)
<1>1. PICK a : a = Filtered(ws, S)
  OBVIOUS
<1>2. PICK b : b = Filtered(ws, T)
  OBVIOUS
<1>3. a \in Seq(WatchRecord) /\ Drawn(a, ws, S)
  BY ONLY ws \in Seq(WatchRecord), <1>1, FilteredWithin
<1>4. b \in Seq(WatchRecord) /\ Drawn(b, ws, T)
  BY ONLY ws \in Seq(WatchRecord), <1>2, FilteredWithin
<1>5. v = a \o b /\ a \in Seq(WatchRecord) /\ b \in Seq(WatchRecord)
  BY <1>1, <1>2, <1>3, <1>4
<1>6. Joined(v, a, b)
  BY ONLY <1>5, ConcatWithin
<1>7. \A n \in DOMAIN v : \E k \in DOMAIN ws : v[n] = ws[k]
  <2> SUFFICES ASSUME NEW n \in DOMAIN v PROVE \E k \in DOMAIN ws : v[n] = ws[k]
    OBVIOUS
  <2>1. CASE \E k \in DOMAIN a : v[n] = a[k]
    BY <1>3, <2>1 DEF Drawn
  <2>2. CASE \E k \in DOMAIN b : v[n] = b[k]
    BY <1>4, <2>2 DEF Drawn
  <2> QED
    BY <1>6, <2>1, <2>2 DEF Joined
<1>8. ASSUME NEW c, Never(ws, c) PROVE Never(v, c)
  BY <1>7, <1>8 DEF Never
<1>9. ASSUME NEW c, Once(ws, c) PROVE Once(v, c)
  <2>1. PICK n \in DOMAIN ws : \A k \in DOMAIN ws : ws[k].clause = c <=> k = n
    BY ONLY <1>9 DEF Once
  <2>2. ws[n] \in S <=> ws[n] \notin T
    BY DEF ToSet, Parted
  <2>3. CASE ws[n] \in S
    <3>1. \A k \in DOMAIN ws : ws[k].clause = c => ws[k] \in S /\ ws[k] \notin T
      BY <2>1, <2>2, <2>3
    <3>2. Once(a, c)
      BY ONLY ws \in Seq(WatchRecord), <1>1, <1>9, <3>1, FilteredOnce
    <3>3. Never(b, c)
      BY ONLY ws \in Seq(WatchRecord), <1>2, <3>1, FilteredNever
    <3> QED
      BY ONLY <1>5, <3>2, <3>3, ConcatOnce
  <2>4. CASE ws[n] \in T
    <3>1. \A k \in DOMAIN ws : ws[k].clause = c => ws[k] \notin S /\ ws[k] \in T
      BY <2>1, <2>2, <2>4
    <3>2. Never(a, c)
      BY ONLY ws \in Seq(WatchRecord), <1>1, <3>1, FilteredNever
    <3>3. Once(b, c)
      BY ONLY ws \in Seq(WatchRecord), <1>2, <1>9, <3>1, FilteredOnce
    <3> QED
      BY ONLY <1>5, <3>2, <3>3, ConcatOnce
  <2> QED
    BY <2>2, <2>3, <2>4
<1> QED
  BY <1>7, <1>8, <1>9 DEF SameWatches

\* The watches after the collection: those of the clauses that stay, redirected.
LEMMA FlushWatchesWatched ==
  ASSUME IInv, PInv, FlushWatches
  PROVE  PInv'
<1>1. /\ TypeOK /\ TrailHolds /\ ListHolds /\ NoRepeats(mem) /\ Forced(trail, control, reason, mem)
      /\ pc = "watches" /\ pc' = "reasons" /\ clauses' = clauses /\ mem' = mem /\ Stays /\ reason' = reason
      /\ AllGuarded(trail, control, mem, Visited(conflict, control, propagated))
      /\ CopiesAlike
  BY ReductionFacts DEF FlushWatches, search, Stays, PInv
<1>2. /\ Staying' = Staying /\ NewStore' = NewStore /\ \A c : Moved(c)' = Moved(c)
  BY <1>1, StoreUnchanged
<1>3. ASSUME NEW l \in Lit
      PROVE  /\ Blocks(watches'[l], mem, l)
             /\ \A c \in Staying : /\ l \notin FirstTwo(mem[c].lits) => Never(watches'[l], Moved(c))
                                   /\ l \in FirstTwo(mem[c].lits) => Once(watches'[l], Moved(c))
  <2>1. PICK old : old = Filtered(watches[l], {w \in ToSet(watches[l]) : ~Collects(w.clause)})
    OBVIOUS
  <2>2. PICK ws : ws = [n \in DOMAIN old |-> Flushed(old[n], l)]
    OBVIOUS
  <2>3. PICK S : S = {w \in ToSet(ws) : w.size = 2}
    OBVIOUS
  <2>4. PICK T : T = ToSet(ws) \ S
    OBVIOUS
  <2>5. watches'[l] = Filtered(ws, S) \o Filtered(ws, T)
    BY <2>1, <2>2, <2>3, <2>4 DEF FlushWatches
  <2>6. ws \in Seq(WatchRecord) /\ Blocks(ws, mem, l)
    BY <1>1, <2>1, <2>2, FlushedBlocks
  <2>7. Parted(ws, S, T)
    BY <2>3, <2>4 DEF Parted
  <2>8. PICK v : v = watches'[l]
    OBVIOUS
  <2>9. v = Filtered(ws, S) \o Filtered(ws, T) /\ ws \in Seq(WatchRecord)
    BY <2>5, <2>6, <2>8
  <2>10. SameWatches(v, ws)
    BY ONLY <2>7, <2>9, BinaryFits
  <2>11. \A n \in DOMAIN v : \E k \in DOMAIN ws : v[n] = ws[k]
    BY <2>10 DEF SameWatches
  <2>12. \A d : (Never(ws, d) => Never(v, d)) /\ (Once(ws, d) => Once(v, d))
    BY <2>10 DEF SameWatches
  <2>13. Blocks(v, mem, l)
    BY <2>6, <2>11 DEF Blocks
  <2>14. ASSUME NEW c \in Staying
         PROVE  /\ l \notin FirstTwo(mem[c].lits) => Never(v, Moved(c))
                /\ l \in FirstTwo(mem[c].lits) => Once(v, Moved(c))
    <3>1. PICK d : d = Moved(c)
      OBVIOUS
    <3>2. /\ l \notin FirstTwo(mem[c].lits) => Never(ws, d)
          /\ l \in FirstTwo(mem[c].lits) => Once(ws, d)
      BY <1>1, <2>1, <2>2, <3>1, FlushedFits
    <3> QED
      BY <2>12, <3>1, <3>2
  <2> QED
    BY <2>8, <2>13, <2>14
<1>4. AllFit(watches', mem', NewStore')
  <2> SUFFICES ASSUME NEW d \in NewStore, NEW l \in Lit PROVE Fits(watches'[l], d, l \in FirstTwo(mem[d].lits))
    BY <1>1, <1>2 DEF AllFit
  <2>1. PICK c \in Staying : d = Moved(c)
    BY DEF NewStore
  <2>2. mem[d].lits = mem[c].lits
    BY <1>1, <2>1 DEF CopiesAlike
  <2> QED
    BY <1>3, <2>1, <2>2 DEF Fits
<1>5. AllBlock(watches', mem')
  BY <1>1, <1>3 DEF AllBlock
<1>6. CopiesAlike'
  BY <1>1, <1>2 DEF CopiesAlike
<1> QED
  BY <1>1, <1>4, <1>5, <1>6, StaysHold, ZenonT(60) DEF NoneIsGarbage

\* Reasons follow the clauses that were moved.
LEMMA UpdateReasonsWatched ==
  ASSUME IInv, PInv, UpdateReasons
  PROVE  PInv'
<1>1. /\ TypeOK /\ TrailHolds /\ NoRepeats(mem) /\ Forced(trail, control, reason, mem)
      /\ pc = "reasons" /\ pc' = "delete" /\ clauses' = clauses /\ mem' = mem /\ watches' = watches /\ Stays
      /\ AllGuarded(trail, control, mem, Visited(conflict, control, propagated))
      /\ AllFit(watches, mem, NewStore) /\ AllBlock(watches, mem)
      /\ CopiesAlike /\ Protected \subseteq Staying
      /\ reason' = [v \in Var |-> IF \E l \in ToSet(trail) \ RootLits : Idx(l) = v /\ reason[v] # 0
                                  THEN Moved(reason[v]) ELSE reason[v]]
  BY ReductionFacts DEF UpdateReasons, store, Stays, PInv, Relocated, IInv, Relocating
<1>2. Staying' = Staying /\ NewStore' = NewStore /\ \A c : Moved(c)' = Moved(c)
  BY <1>1, StoreUnchanged
<1>3. Forced(trail, control, reason', mem)
  <2> SUFFICES ASSUME NEW n \in DOMAIN trail, Len(control) > 0, n > control[1], reason'[Idx(trail[n])] # 0
               PROVE  /\ ~mem[reason'[Idx(trail[n])]].garbage
                      /\ Forces(trail, n, mem[reason'[Idx(trail[n])]].lits)
    BY DEF Forced
  <2>1. PICK v : v = Idx(trail[n])
    OBVIOUS
  <2>2. v \in Var /\ trail[n] \in ToSet(trail)
    BY <1>1, <2>1, StoreFacts, LitFacts DEF ToSet
  <2>3. trail[n] \notin RootLits
    <3>1. Level \in Nat /\ Level = Len(control) /\ \A j \in 1 .. Level : control[j] \in Nat
          /\ n \in Nat /\ (trail[n] \in RootLits <=> Level = 0 \/ n <= control[1])
      BY <1>1, StoreFacts, RootIs
    <3>2. 1 \in 1 .. Level
      BY <3>1
    <3> QED
      BY <3>1, <3>2
  <2>4. reason'[v] = IF reason[v] # 0 THEN Moved(reason[v]) ELSE reason[v]
    BY <1>1, <2>1, <2>2, <2>3
  <2>5. PICK c : c = reason[v]
    OBVIOUS
  <2>6. c # 0 /\ reason'[v] = Moved(c)
    BY <2>1, <2>4, <2>5
  <2>7. c \in Protected
    BY <2>1, <2>2, <2>3, <2>5, <2>6 DEF Protected
  <2>8. ~mem[c].garbage /\ Forces(trail, n, mem[c].lits)
    BY <1>1, <2>1, <2>5, <2>6 DEF Forced
  <2>9. ~mem[Moved(c)].garbage /\ mem[Moved(c)].lits = mem[c].lits
    BY <1>1, <2>7 DEF CopiesAlike
  <2> QED
    BY <2>1, <2>6, <2>8, <2>9
<1>4. CopiesAlike'
  BY <1>1, <1>2 DEF CopiesAlike
<1> QED
  BY <1>1, <1>2, <1>3, <1>4, StaysHold DEF NoneIsGarbage

\* What is freed is watched by nobody and the reason of nothing.
LEMMA DeleteGarbageWatched ==
  ASSUME IInv, PInv, DeleteGarbage
  PROVE  PInv'
<1>1. /\ TypeOK /\ TrailHolds /\ NoRepeats(mem) /\ Forced(trail, control, reason, mem)
      /\ pc = "delete" /\ pc' = "unprotect" /\ watches' = watches /\ Stays /\ reason' = reason
      /\ AllGuarded(trail, control, mem, Visited(conflict, control, propagated))
      /\ AllFit(watches, mem, NewStore) /\ AllBlock(watches, mem) /\ AllInto(watches, NewStore)
      /\ CopiesAlike /\ Protected \subseteq NewStore
  BY ReductionFacts DEF DeleteGarbage, search, Stays, PInv, Relocated, IInv, Relocating
<1>2. /\ K' = NewStore /\ NewStore \subseteq Addr
      /\ \A c \in NewStore : mem'[c] = mem[c]
      /\ \A c \in Addr : c \notin NewStore => mem'[c] = Free
  BY <1>1, GarbageDeleted, NewStoreIs
<1>3. Free.lits = <<>> /\ IsInjective(<<>>) /\ Len(<<>>) = 0
  BY <1>1, StoreFacts DEF IsInjective
<1>4. NoRepeats(mem')
  <2> SUFFICES ASSUME NEW c \in Addr PROVE IsInjective(mem'[c].lits)
    BY DEF NoRepeats
  <2>1. CASE c \in NewStore
    BY <1>1, <1>2, <2>1 DEF NoRepeats
  <2>2. CASE c \notin NewStore
    BY <1>2, <1>3, <2>2
  <2> QED
    BY <2>1, <2>2
<1>5. AllGuarded(trail, control, mem', Visited(conflict, control, propagated))
  <2>1. ASSUME NEW c \in Addr, Live(mem', c) PROVE Live(mem, c) /\ mem'[c] = mem[c]
    <3>1. c \in NewStore
      BY <1>2, <1>3, <2>1 DEF Live
    <3> QED
      BY <1>2, <2>1, <3>1 DEF Live
  <2> QED
    BY <1>1, <2>1 DEF AllGuarded
<1>6. Forced(trail, control, reason, mem')
  <2>1. \A c \in Protected : mem'[c].lits = mem[c].lits /\ (~mem[c].garbage => ~mem'[c].garbage)
    BY <1>1, <1>2
  <2> QED
    BY <1>1, <2>1, ForcedBy
<1>7. AllFit(watches, mem', NewStore)
  BY <1>1, <1>2 DEF AllFit
<1>8. AllBlock(watches, mem')
  <2> SUFFICES ASSUME NEW l \in Lit PROVE Blocks(watches[l], mem', l)
    BY DEF AllBlock
  <2>1. \A n \in DOMAIN watches[l] : mem'[watches[l][n].clause] = mem[watches[l][n].clause]
    BY <1>1, <1>2 DEF AllInto, Into
  <2>2. Blocks(watches[l], mem, l)
    BY <1>1 DEF AllBlock
  <2> QED
    BY <2>1, <2>2 DEF Blocks
<1>9. NoneIsGarbage'
  <2>1. ASSUME NEW c \in NewStore PROVE ~mem'[c].garbage
    <3>1. PICK d \in Staying : c = Moved(d)
      BY DEF NewStore
    <3>2. ~mem[c].garbage
      BY <1>1, <3>1 DEF CopiesAlike
    <3> QED
      BY <1>2, <3>2
  <2> QED
    BY <1>2, <2>1 DEF NoneIsGarbage
<1>10. CopiesAlike'
  BY <1>1 DEF CopiesAlike
<1> QED
  BY <1>1, <1>2, <1>4, <1>5, <1>6, <1>7, <1>8, <1>9, <1>10, StaysHold

-----------------------------------------------------------------------------
\* The watches of the formula
LEMMA FirstFit ==
  ASSUME Init, NEW l \in Lit
  PROVE  /\ Blocks(watches[l], mem, l)
         /\ \A c \in DOMAIN Formula : Fits(watches[l], c, l \in FirstTwo(Formula[c]))
<1>1. PICK T : T = {c \in DOMAIN Formula : l \in {Formula[c][1], Formula[c][2]}}
  OBVIOUS
<1>2. PICK cs : cs = Filtered(clauses, T)
  OBVIOUS
<1>3. PICK ws : ws = watches[l]
  OBVIOUS
<1>4. clauses = [c \in DOMAIN Formula |-> c] /\ ws = [n \in DOMAIN cs |-> Watch(cs[n], Formula[cs[n]], l)]
  BY <1>1, <1>2, <1>3 DEF Init
<1>5. DOMAIN ws = DOMAIN cs /\ \A n \in DOMAIN cs : ws[n] = Watch(cs[n], Formula[cs[n]], l)
  BY <1>4
<1>6. clauses \in Seq(Addr) /\ ToSet(clauses) = DOMAIN Formula /\ IsInjective(clauses)
  <2>1. clauses \in [1 .. Len(Formula) -> Addr]
    BY <1>4, FormulaIs
  <2>2. Len(Formula) \in Nat
    BY FormulaIs
  <2>3. clauses \in Seq(Addr)
    BY ONLY <2>1, <2>2
  <2>4. ToSet(clauses) = DOMAIN Formula
    BY <1>4, ZenonT(60) DEF ToSet
  <2> QED
    BY <1>4, <2>3, <2>4 DEF IsInjective
<1>7. IsInjective(cs)
  BY ONLY <1>2, <1>6, FilteredInjective
<1>8. ToSet(cs) = ToSet(clauses) \cap T
  BY ONLY <1>2, <1>6, FilteredIs
<1>9. \A c : c \in T <=> \E n \in DOMAIN cs : cs[n] = c
  BY <1>1, <1>6, <1>8 DEF ToSet
<1>10. \A c : c \in T <=> c \in DOMAIN Formula /\ l \in FirstTwo(Formula[c])
  BY <1>1 DEF FirstTwo
<1>11. ASSUME NEW n \in DOMAIN cs
       PROVE  /\ ws[n].clause = cs[n]
              /\ ws[n].size = Len(mem[cs[n]].lits)
              /\ ws[n].blit \in ToSet(mem[cs[n]].lits) /\ ws[n].blit # l
  <2>1. PICK c : c = cs[n]
    OBVIOUS
  <2>2. PICK lits : lits = Formula[c]
    OBVIOUS
  <2>3. c \in DOMAIN Formula /\ l \in FirstTwo(lits)
    BY <1>9, <1>10, <2>1, <2>2
  <2>4. c \in Addr /\ lits \in Seq(Lit) /\ Len(lits) >= 2 /\ IsInjective(lits)
    BY <2>2, <2>3, FormulaIs, CollectAssumption
  <2>5. Len(lits) \in Nat /\ DOMAIN lits = 1 .. Len(lits) /\ 1 \in DOMAIN lits /\ 2 \in DOMAIN lits
    BY <2>4, LenProperties
  <2>6. lits[1] \in ToSet(lits) /\ lits[2] \in ToSet(lits) /\ lits[1] # lits[2]
    BY <2>4, <2>5 DEF ToSet, IsInjective
  <2>7. ws[n] = [clause |-> c, blit |-> IF lits[1] = l THEN lits[2] ELSE lits[1], size |-> Len(lits)]
    BY <1>5, <2>1, <2>2 DEF Watch
  <2>8. ws[n].clause = c /\ ws[n].size = Len(lits) /\ ws[n].blit \in ToSet(lits) /\ ws[n].blit # l
    BY ONLY <2>6, <2>7
  <2>9. mem[c].lits = lits
    BY <2>2, <2>3, <2>4 DEF Init, Stored
  <2> QED
    BY <2>1, <2>8, <2>9
<1>12. Blocks(ws, mem, l)
  BY <1>5, <1>11 DEF Blocks
<1>13. ASSUME NEW c \in DOMAIN Formula PROVE Fits(ws, c, l \in FirstTwo(Formula[c]))
  <2>1. CASE c \in T
    <3>1. PICK n \in DOMAIN cs : cs[n] = c
      BY <1>9, <2>1
    <3>2. n \in DOMAIN ws /\ \A m \in DOMAIN ws : ws[m].clause = c <=> m = n
      BY <1>5, <1>7, <1>11, <3>1 DEF IsInjective
    <3>3. Once(ws, c)
      BY ONLY <3>2 DEF Once
    <3> QED
      BY <1>10, <2>1, <3>3 DEF Fits
  <2>2. CASE c \notin T
    <3>1. Never(ws, c)
      BY <1>5, <1>9, <1>11, <2>2 DEF Never
    <3> QED
      BY <1>10, <2>2, <3>1 DEF Fits
  <2> QED
    BY <2>1, <2>2
<1> QED
  BY <1>3, <1>12, <1>13

LEMMA InitWatched ==
  ASSUME Init
  PROVE  PInv
<1>1. /\ mem = [c \in Addr |-> IF c \in DOMAIN Formula THEN Stored(Formula[c], FALSE, 0, 0) ELSE Free]
      /\ clauses = [c \in DOMAIN Formula |-> c]
      /\ trail = <<>> /\ control = <<>> /\ propagated = 0 /\ conflict = 0 /\ pc = "search"
  BY DEF Init
<1>2. K = DOMAIN Formula
  BY <1>1, ZenonT(60) DEF ToSet, K
<1>3. DOMAIN trail = {} /\ Len(control) = 0 /\ Len(trail) = 0
  BY <1>1
<1>4. ASSUME NEW c \in Addr
      PROVE  IsInjective(mem[c].lits) /\ mem[c].garbage = FALSE /\ (c \in DOMAIN Formula => mem[c].lits = Formula[c])
  <2>1. CASE c \in DOMAIN Formula
    <3>1. mem[c] = Stored(Formula[c], FALSE, 0, 0) /\ IsInjective(Formula[c])
      BY <1>1, <2>1, CollectAssumption
    <3> QED
      BY <3>1 DEF Stored
  <2>2. CASE c \notin DOMAIN Formula
    <3>1. mem[c] = Free /\ IsInjective(<<>>)
      BY <1>1, <2>2 DEF IsInjective
    <3> QED
      BY <2>2, <3>1 DEF Free, Stored
  <2> QED
    BY <2>1, <2>2
<1>5. NoRepeats(mem)
  BY <1>4 DEF NoRepeats
<1>6. Forced(trail, control, reason, mem) /\ AllGuarded(trail, control, mem, Visited(conflict, control, propagated))
  BY <1>3 DEF Forced, AllGuarded, Guarded
<1>7. AllFit(watches, mem, K) /\ AllBlock(watches, mem)
  <2>1. \A c \in DOMAIN Formula : mem[c].lits = Formula[c]
    BY <1>4, FormulaIs
  <2>2. \A l \in Lit : Blocks(watches[l], mem, l)
    BY FirstFit
  <2>3. \A l \in Lit : \A c \in DOMAIN Formula : Fits(watches[l], c, l \in FirstTwo(Formula[c]))
    BY FirstFit
  <2> QED
    BY <1>2, <2>1, <2>2, <2>3 DEF AllFit, AllBlock
<1>8. LevelsSeen
  BY <1>3 DEF LevelsSeen, Level
<1>9. GarbageIsLong
  BY <1>2, <1>4, FormulaIs DEF GarbageIsLong
<1> QED
  BY <1>1, <1>5, <1>6, <1>7, <1>8, <1>9 DEF PInv, NoneIsGarbage, CopiesAlike, Relocated

LEMMA StutterWatched ==
  ASSUME PInv, UNCHANGED vars
  PROVE  PInv'
<1>1. /\ mem' = mem /\ clauses' = clauses /\ watches' = watches /\ reason' = reason /\ trail' = trail
      /\ control' = control /\ propagated' = propagated /\ conflict' = conflict /\ pc' = pc
  BY DEF vars, store, search
<1>2. K' = K /\ Staying' = Staying /\ NewStore' = NewStore /\ \A c : Moved(c)' = Moved(c)
  BY <1>1, StoreUnchanged
<1>3. LevelsSeen' /\ GarbageIsLong' /\ NoneIsGarbage' /\ CopiesAlike'
  BY <1>1, <1>2 DEF PInv, LevelsSeen, Level, GarbageIsLong, NoneIsGarbage, CopiesAlike
<1> QED
  BY <1>1, <1>2, <1>3 DEF PInv, Relocated

\* One step for each action
LEMMA StepWatched ==
  ASSUME IInv, PInv, [Next]_vars
  PROVE  PInv'
<1>1. CASE PropagateLiteral
  BY <1>1, PropagateLiteralWatched
<1>2. CASE Restart
  BY <1>2, RestartWatched
<1>3. CASE Reduce
  BY <1>3, ReduceWatched
<1>4. CASE \E l \in Lit : Decide(l)
  BY <1>4, DecideWatched
<1>5. CASE \E S \in SUBSET {-l : l \in ToSet(trail)} : Analyze(S)
  BY <1>5, AnalyzeWatched, ZenonT(60)
<1>6. CASE ProtectReasons
  BY <1>6, ProtectReasonsWatched
<1>7. CASE MarkUseless
  BY <1>7, MarkUselessWatched
<1>8. CASE CopyClauses
  BY <1>8, CopyClausesWatched
<1>9. CASE FlushWatches
  BY <1>9, FlushWatchesWatched
<1>10. CASE UpdateReasons
  BY <1>10, UpdateReasonsWatched
<1>11. CASE DeleteGarbage
  BY <1>11, DeleteGarbageWatched
<1>12. CASE UnprotectReasons
  BY <1>12, UnprotectReasonsWatched
<1>13. CASE UNCHANGED vars
  BY <1>13, StutterWatched
<1> QED
  BY <1>1, <1>2, <1>3, <1>4, <1>5, <1>6, <1>7, <1>8, <1>9, <1>10, <1>11, <1>12, <1>13 DEF Next

-----------------------------------------------------------------------------
\* What the invariant says between two collections
LEMMA InvariantWatches ==
  ASSUME IInv, PInv, pc = "search", NEW c \in K, ~mem[c].garbage, NEW l \in Lit,
         NEW ws, ws = {n \in DOMAIN watches[l] : watches[l][n].clause = c}
  PROVE  /\ Cardinality(ws) = IF l \in {mem[c].lits[1], mem[c].lits[2]} THEN 1 ELSE 0
         /\ \A n \in ws : /\ watches[l][n].size = Len(mem[c].lits)
                          /\ watches[l][n].blit \in ToSet(mem[c].lits) \ {l}
<1>1. AllFit(watches, mem, K) /\ AllBlock(watches, mem)
  BY DEF PInv, Relocated
<1>2. Fits(watches[l], c, l \in FirstTwo(mem[c].lits))
  BY <1>1 DEF AllFit
<1>3. ASSUME l \in FirstTwo(mem[c].lits) PROVE Cardinality(ws) = 1
  <2>1. Once(watches[l], c)
    BY <1>2, <1>3 DEF Fits
  <2>2. PICK n \in DOMAIN watches[l] : \A m \in DOMAIN watches[l] : watches[l][m].clause = c <=> m = n
    BY ONLY <2>1 DEF Once
  <2>3. ws = {n}
    BY <2>2
  <2>4. Cardinality({n}) = 1
    BY ONLY FS_Singleton
  <2> QED
    BY <2>3, <2>4
<1>4. ASSUME l \notin FirstTwo(mem[c].lits) PROVE Cardinality(ws) = 0
  <2>1. Never(watches[l], c)
    BY <1>2, <1>4 DEF Fits
  <2>2. ws = {}
    BY <2>1 DEF Never
  <2> QED
    BY <2>2, FS_EmptySet
<1>5. Cardinality(ws) = IF l \in {mem[c].lits[1], mem[c].lits[2]} THEN 1 ELSE 0
  BY <1>3, <1>4 DEF FirstTwo
<1>6. Blocks(watches[l], mem, l)
  BY <1>1 DEF AllBlock
<1>7. ASSUME NEW n \in ws
      PROVE  watches[l][n].size = Len(mem[c].lits) /\ watches[l][n].blit \in ToSet(mem[c].lits) \ {l}
  <2>1. n \in DOMAIN watches[l] /\ watches[l][n].clause = c
    OBVIOUS
  <2> QED
    BY <1>6, <2>1 DEF Blocks
<1> QED
  BY <1>5, <1>7

LEMMA InvariantReasons ==
  ASSUME IInv, PInv, NEW n \in DOMAIN trail, trail[n] \notin RootLits, NEW c, c = reason[Idx(trail[n])], c # 0
  PROVE  /\ ~mem[c].garbage /\ Contains(mem[c].lits, trail[n])
         /\ \A l \in ToSet(mem[c].lits) \ {trail[n]} : Contains(SubSeq(trail, 1, n), -l)
<1>1. /\ TypeOK /\ TrailHolds /\ Forced(trail, control, reason, mem) /\ trail \in Seq(Lit)
  BY DEF IInv, PInv, TypeOK
<1>2. /\ Level \in Nat /\ Level = Len(control) /\ \A j \in 1 .. Level : control[j] \in Nat
      /\ Len(trail) \in Nat /\ DOMAIN trail = 1 .. Len(trail)
      /\ (trail[n] \in RootLits <=> Level = 0 \/ n <= control[1])
  BY <1>1, StoreFacts, RootIs
<1>3. Len(control) > 0 /\ n > control[1]
  <2>1. 1 \in 1 .. Level
    BY <1>2
  <2> QED
    BY <1>2, <2>1
<1>4. ~mem[c].garbage /\ Forces(trail, n, mem[c].lits)
  BY <1>1, <1>3 DEF Forced
<1>5. c \in Addr /\ mem[c].lits \in Seq(Lit)
  <2>1. trail[n] \in Lit
    BY <1>1, <1>2, StoreFacts
  <2>2. c \in Addr
    BY <1>1, <2>1, LitFacts DEF TypeOK
  <2> QED
    BY <1>1, <2>2, StoreFacts DEF ClauseRecord
<1>6. PICK lits : lits = mem[c].lits
  OBVIOUS
<1>7. DOMAIN lits = 1 .. Len(lits)
  BY <1>5, <1>6, LenProperties
<1>8. Contains(lits, trail[n])
  BY <1>4, <1>6, <1>7 DEF Forces, Contains, ToSet
<1>9. PICK prefix : prefix = SubSeq(trail, 1, n)
  OBVIOUS
<1>10. Len(prefix) = n /\ \A i \in 1 .. n : prefix[i] = trail[i]
  <2>1. n \in 0 .. Len(trail)
    BY <1>2
  <2> QED
    BY <1>1, <1>9, <2>1, PrefixIs
<1>11. \A l \in ToSet(lits) \ {trail[n]} : Contains(prefix, -l)
  BY <1>4, <1>6, <1>10 DEF Forces, Contains
<1> QED
  BY <1>4, <1>6, <1>8, <1>9, <1>11

LEMMA InvariantQuiet ==
  ASSUME IInv, PInv, Quiet, NEW c \in K, ~mem[c].garbage
  PROVE  \/ \E l \in ToSet(mem[c].lits) : Contains(trail, l)
         \/ Cardinality({l \in ToSet(mem[c].lits) : ~Contains(trail, -l)}) >= 2
<1>1. PICK lits : lits = mem[c].lits
  OBVIOUS
<1>2. /\ c \in Addr /\ lits \in Seq(Lit) /\ Len(lits) >= 2 /\ IsInjective(lits)
      /\ Len(trail) \in Nat /\ DOMAIN trail = 1 .. Len(trail)
      /\ AllGuarded(trail, control, mem, Len(trail))
  BY <1>1, StoreFacts DEF IInv, PInv, AtRest, StoreIs, Quiet, Visited, NoRepeats, ClauseRecord
<1>3. Guarded(trail, control, lits, Len(trail))
  BY <1>1, <1>2 DEF AllGuarded, Live
<1>4. Len(lits) \in Nat /\ DOMAIN lits = 1 .. Len(lits) /\ 1 \in DOMAIN lits /\ 2 \in DOMAIN lits
  BY <1>2, LenProperties
<1>5. lits[1] \in ToSet(lits) /\ lits[2] \in ToSet(lits) /\ lits[1] # lits[2]
  BY <1>2, <1>4 DEF ToSet, IsInjective
<1>6. SUFFICES ASSUME \A l \in ToSet(lits) : ~Contains(trail, l)
               PROVE  Cardinality({l \in ToSet(lits) : ~Contains(trail, -l)}) >= 2
  BY <1>1
<1>7. ASSUME NEW i \in {1, 2} PROVE ~Contains(trail, -lits[i])
  <2> SUFFICES ASSUME Contains(trail, -lits[i]) PROVE FALSE
    OBVIOUS
  <2>1. PICK p \in DOMAIN trail : trail[p] = -lits[i]
    BY <1>2 DEF Contains
  <2>2. p <= Len(trail)
    BY <1>2
  <2>3. PICK q \in DOMAIN trail : trail[q] \in ToSet(lits)
    BY <1>3, <2>1, <2>2 DEF Guarded
  <2> QED
    BY <1>2, <1>6, <2>3 DEF Contains
<1>8. PICK U : U = {l \in ToSet(lits) : ~Contains(trail, -l)}
  OBVIOUS
<1>9. lits[1] \in U /\ lits[2] \in U /\ U \in SUBSET ToSet(lits)
  BY <1>5, <1>7, <1>8
<1>10. IsFiniteSet(ToSet(lits))
  BY <1>2, RangeFinite
<1>11. IsFiniteSet(U)
  BY ONLY <1>9, <1>10, FS_Subset
<1>12. Cardinality(U) \in Nat /\ Cardinality(U) # 0 /\ Cardinality(U) # 1
  <2>1. Cardinality(U) \in Nat
    BY ONLY <1>11, FS_CardinalityType
  <2>2. Cardinality(U) # 0
    BY ONLY <1>9, <1>11, FS_EmptySet
  <2>3. Cardinality(U) # 1
    <3>1. ~\E x : U = {x}
      BY ONLY <1>5, <1>9
    <3> QED
      BY ONLY <1>11, <3>1, FS_Singleton
  <2> QED
    BY <2>1, <2>2, <2>3
<1> QED
  BY <1>8, <1>12

LEMMA InvariantPropagation ==
  ASSUME IInv, PInv
  PROVE  PropagationHolds
<1>1. WatchesExact
  <2> SUFFICES ASSUME pc = "search", NEW c \in K, ~mem[c].garbage, NEW l \in Lit
               PROVE  LET ws == {n \in DOMAIN watches[l] : watches[l][n].clause = c}
                      IN /\ Cardinality(ws) = IF l \in {mem[c].lits[1], mem[c].lits[2]} THEN 1 ELSE 0
                         /\ \A n \in ws : /\ watches[l][n].size = Len(mem[c].lits)
                                          /\ watches[l][n].blit \in ToSet(mem[c].lits) \ {l}
    BY DEF WatchesExact, K
  <2> QED
    BY InvariantWatches
<1>2. ReasonsHold
  BY InvariantReasons DEF ReasonsHold
<1>3. PropagationComplete
  BY InvariantQuiet DEF PropagationComplete, K
<1> QED
  BY <1>1, <1>2, <1>3 DEF PropagationHolds

\* Propagation loses nothing, through learning, restarts, reductions and moves: between
\* two collections each clause is watched by its first two literals, once each; each
\* reason above the root level forces its literal; and when everything is propagated no
\* clause is unit or falsified (propagate.cpp, collect.cpp, reduce.cpp, assertion FW1).
THEOREM PropagationIsKept == Spec => []PropagationHolds
<1>1. Init => IInv /\ PInv
  BY InitHolds, InitWatched
<1>2. IInv /\ PInv /\ [Next]_vars => IInv' /\ PInv'
  BY StepHolds, StepWatched
<1>3. IInv /\ PInv => PropagationHolds
  BY InvariantPropagation
<1> QED
  BY <1>1, <1>2, <1>3, PTL DEF Spec
=============================================================================
