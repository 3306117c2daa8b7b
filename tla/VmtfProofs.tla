----------------------------- MODULE VmtfProofs -----------------------------
(***************************************************************************)
(* Proofs about the decision queue.  QueueKept is inductive: the list is   *)
(* ordered by the stamps, the pointer 'unassigned' bounds the stamps of    *)
(* the unassigned variables, and what is bumped is assigned, so that a     *)
(* bump moves no unassigned variable.                                      *)
(***************************************************************************)
EXTENDS Vmtf, FiniteSetTheorems, SequenceTheorems, WellFoundedInduction, TLAPS

-----------------------------------------------------------------------------
\* A least element of every set of numbers, and so a largest stamp.
Smaller == {p \in Nat \X Nat : p[1] < p[2]}

LEMMA SmallestNumber ==
  ASSUME NEW T \in SUBSET Nat, T # {}
  PROVE  \E m \in T : \A n \in T : m <= n
<1>1. IsWellFoundedOn(Smaller, Nat)
  BY NatLessThanWellFounded DEF OpToRel, Smaller
<1>2. PICK m \in T : \A n \in T : ~(<<n, m>> \in Smaller)
  BY <1>1, WFMin
<1>3. ASSUME NEW n \in T PROVE m <= n
  <2>1. ~(<<n, m>> \in Smaller)
    BY <1>2
  <2> QED BY <2>1 DEF Smaller
<1> QED BY <1>3

LEMMA LargestStamp ==
  ASSUME NEW S, S # {}, S \subseteq Var, btab \in [Var -> Int], bumped \in Nat,
         \A v \in S : btab[v] <= bumped
  PROVE  \E v \in S : \A w \in S : btab[w] <= btab[v]
<1> DEFINE T == {bumped - btab[v] : v \in S}
<1>1. T \in SUBSET Nat /\ T # {}
  OBVIOUS
<1>2. PICK m \in T : \A n \in T : m <= n
  BY <1>1, SmallestNumber
<1>3. PICK v \in S : m = bumped - btab[v]
  OBVIOUS
<1>4. ASSUME NEW w \in S PROVE btab[w] <= btab[v]
  <2>1. m <= bumped - btab[w]
    BY <1>2
  <2>2. btab[w] \in Int /\ btab[v] \in Int
    OBVIOUS
  <2> QED BY <1>3, <2>1, <2>2
<1> QED BY <1>4

\* Each rank is taken by a variable: there are as many ranks as variables.
LEMMA EveryRank ==
  ASSUME NEW N \in Nat, NEW rank \in [1 .. N -> 0 .. N - 1],
         \A v, w \in 1 .. N : v # w => rank[v] # rank[w],
         NEW n \in 0 .. N - 1
  PROVE  \E v \in 1 .. N : rank[v] = n
<1> SUFFICES ASSUME \A v \in 1 .. N : rank[v] # n PROVE FALSE
  OBVIOUS
<1> DEFINE S == 1 .. N
           T == (0 .. N - 1) \ {n}
<1>1. IsFiniteSet(S) /\ Cardinality(S) = N
  BY FS_Interval
<1>2. IsFiniteSet(0 .. N - 1) /\ Cardinality(0 .. N - 1) = N
  BY FS_Interval
<1>3. IsFiniteSet(T) /\ Cardinality(T) = N - 1
  <2> DEFINE I == 0 .. N - 1
  <2>1. n \in I /\ IsFiniteSet(I) /\ Cardinality(I) = N
    BY <1>2
  <2> HIDE DEF I
  <2>2. IsFiniteSet(I \ {n}) /\ Cardinality(I \ {n}) = Cardinality(I) - 1
    BY <2>1, FS_RemoveElement
  <2> QED BY <2>1, <2>2 DEF I
<1>4. rank \in [S -> T]
  OBVIOUS
<1>5. Cardinality(T) < Cardinality(S)
  BY <1>1, <1>3
<1> HIDE DEF S, T
<1>6. \E v, w \in S : v # w /\ rank[v] = rank[w]
  BY <1>1, <1>3, <1>4, <1>5, FS_PigeonHole, SMTT(60)
<1> QED BY <1>6 DEF S

-----------------------------------------------------------------------------
\* Linked lists: their ends, and what linking and unlinking an element gives.
LEMMA LinkedEnds ==
  ASSUME NEW S, 0 \notin S, NEW first, NEW last, NEW prv, NEW nxt, NEW stamp,
         Linked(S, first, last, prv, nxt, stamp), \A v \in S : stamp[v] \in Int
  PROVE  /\ first \in S => \A v \in S : stamp[first] <= stamp[v]
         /\ last \in S => \A v \in S : stamp[v] <= stamp[last]
<1>1. ASSUME first \in S, NEW v \in S \ {first} PROVE stamp[first] <= stamp[v]
  <2>1. /\ nxt[first] # 0 => nxt[first] \in S /\ stamp[first] < stamp[nxt[first]]
        /\ nxt[first] # 0 /\ stamp[nxt[first]] <= stamp[v]
    BY <1>1 DEF Linked
  <2> QED BY <1>1, <2>1
<1>2. ASSUME last \in S, NEW v \in S \ {last} PROVE stamp[v] <= stamp[last]
  <2>1. /\ prv[last] # 0 => prv[last] \in S /\ stamp[prv[last]] < stamp[last]
        /\ prv[last] # 0 /\ stamp[v] <= stamp[prv[last]]
    BY <1>2 DEF Linked
  <2> QED BY <1>2, <2>1
<1>3. \A v \in S : stamp[v] <= stamp[v]
  OBVIOUS
<1> QED BY <1>1, <1>2, <1>3

LEMMA LinkedPrepend ==
  ASSUME NEW S, 0 \notin S, NEW first \in S, NEW last \in S, NEW prv, NEW nxt, NEW stamp,
         Linked(S, first, last, prv, nxt, stamp), \A w \in S : stamp[w] \in Int,
         NEW v, v # 0, v \notin S, NEW prv2, NEW nxt2, NEW stamp2,
         prv2[v] = 0, nxt2[v] = first, stamp2[v] \in Int,
         \A w \in S : /\ prv2[w] = IF w = first THEN v ELSE prv[w]
                      /\ nxt2[w] = nxt[w] /\ stamp2[w] = stamp[w] /\ stamp2[v] < stamp[w]
  PROVE  Linked(S \cup {v}, v, last, prv2, nxt2, stamp2)
<1> DEFINE At(w) ==
      /\ prv2[w] = 0 <=> v = w
      /\ nxt2[w] = 0 <=> last = w
      /\ prv2[w] # 0 => prv2[w] \in S \cup {v} /\ nxt2[prv2[w]] = w /\ stamp2[prv2[w]] < stamp2[w]
      /\ nxt2[w] # 0 => nxt2[w] \in S \cup {v} /\ prv2[nxt2[w]] = w /\ stamp2[w] < stamp2[nxt2[w]]
      /\ \A x \in (S \cup {v}) \ {w} : \/ prv2[w] # 0 /\ stamp2[x] <= stamp2[prv2[w]]
                                       \/ nxt2[w] # 0 /\ stamp2[nxt2[w]] <= stamp2[x]
<1>1. prv[first] = 0 /\ \A x \in S : stamp[first] <= stamp[x]
  BY LinkedEnds DEF Linked
<1>2. At(v)
  BY <1>1
<1>3. ASSUME NEW w \in S PROVE At(w)
  <2>1. /\ prv[w] = 0 <=> first = w
        /\ nxt[w] = 0 <=> last = w
        /\ prv[w] # 0 => prv[w] \in S /\ nxt[prv[w]] = w /\ stamp[prv[w]] < stamp[w]
        /\ nxt[w] # 0 => nxt[w] \in S /\ prv[nxt[w]] = w /\ stamp[w] < stamp[nxt[w]]
        /\ \A x \in S \ {w} : \/ prv[w] # 0 /\ stamp[x] <= stamp[prv[w]]
                              \/ nxt[w] # 0 /\ stamp[nxt[w]] <= stamp[x]
    BY DEF Linked
  <2>2. CASE w = first
    <3>1. /\ prv2[w] = v /\ nxt2[w] = nxt[w] /\ nxt2[v] = w
          /\ nxt[w] # 0 => prv2[nxt[w]] = w
      BY <1>1, <2>1, <2>2
    <3>2. \A x \in S \ {w} : nxt[w] # 0 /\ stamp2[nxt[w]] <= stamp2[x]
      BY <1>1, <2>1, <2>2
    <3>3. stamp2[v] <= stamp2[v]
      OBVIOUS
    <3> QED BY <2>1, <2>2, <3>1, <3>2, <3>3
  <2>3. CASE w # first
    <3>1. /\ prv2[w] = prv[w] /\ nxt2[w] = nxt[w] /\ prv[w] # 0
          /\ nxt[w] # 0 => prv2[nxt[w]] = w
      BY <1>1, <2>1, <2>3
    <3>2. \A x \in S \ {w} : \/ stamp2[x] <= stamp2[prv[w]]
                             \/ nxt[w] # 0 /\ stamp2[nxt[w]] <= stamp2[x]
      BY <2>1, <3>1
    <3>3. stamp2[v] <= stamp2[prv[w]]
      BY <2>1, <3>1
    <3> QED BY <2>1, <2>3, <3>1, <3>2, <3>3
  <2> QED BY <2>2, <2>3
<1> QED BY <1>2, <1>3 DEF Linked

LEMMA LinkedAppend ==
  ASSUME NEW S, 0 \notin S, NEW first \in S, NEW last \in S, NEW prv, NEW nxt, NEW stamp,
         Linked(S, first, last, prv, nxt, stamp), \A w \in S : stamp[w] \in Int,
         NEW v, v # 0, v \notin S, NEW prv2, NEW nxt2, NEW stamp2,
         nxt2[v] = 0, prv2[v] = last, stamp2[v] \in Int,
         \A w \in S : /\ nxt2[w] = IF w = last THEN v ELSE nxt[w]
                      /\ prv2[w] = prv[w] /\ stamp2[w] = stamp[w] /\ stamp[w] < stamp2[v]
  PROVE  Linked(S \cup {v}, first, v, prv2, nxt2, stamp2)
<1> DEFINE At(w) ==
      /\ prv2[w] = 0 <=> first = w
      /\ nxt2[w] = 0 <=> v = w
      /\ prv2[w] # 0 => prv2[w] \in S \cup {v} /\ nxt2[prv2[w]] = w /\ stamp2[prv2[w]] < stamp2[w]
      /\ nxt2[w] # 0 => nxt2[w] \in S \cup {v} /\ prv2[nxt2[w]] = w /\ stamp2[w] < stamp2[nxt2[w]]
      /\ \A x \in (S \cup {v}) \ {w} : \/ prv2[w] # 0 /\ stamp2[x] <= stamp2[prv2[w]]
                                       \/ nxt2[w] # 0 /\ stamp2[nxt2[w]] <= stamp2[x]
<1>1. nxt[last] = 0 /\ \A x \in S : stamp[x] <= stamp[last]
  BY LinkedEnds, SMTT(60) DEF Linked
<1>2. At(v)
  BY <1>1
<1>3. ASSUME NEW w \in S PROVE At(w)
  <2>1. /\ prv[w] = 0 <=> first = w
        /\ nxt[w] = 0 <=> last = w
        /\ prv[w] # 0 => prv[w] \in S /\ nxt[prv[w]] = w /\ stamp[prv[w]] < stamp[w]
        /\ nxt[w] # 0 => nxt[w] \in S /\ prv[nxt[w]] = w /\ stamp[w] < stamp[nxt[w]]
        /\ \A x \in S \ {w} : \/ prv[w] # 0 /\ stamp[x] <= stamp[prv[w]]
                              \/ nxt[w] # 0 /\ stamp[nxt[w]] <= stamp[x]
    BY DEF Linked
  <2>2. CASE w = last
    <3>1. /\ nxt2[w] = v /\ prv2[w] = prv[w] /\ prv2[v] = w
          /\ prv[w] # 0 => nxt2[prv[w]] = w
      BY <1>1, <2>1, <2>2
    <3>2. \A x \in S \ {w} : prv[w] # 0 /\ stamp2[x] <= stamp2[prv[w]]
      BY <1>1, <2>1, <2>2
    <3>3. stamp2[v] <= stamp2[v]
      OBVIOUS
    <3> QED BY <2>1, <2>2, <3>1, <3>2, <3>3
  <2>3. CASE w # last
    <3>1. /\ prv2[w] = prv[w] /\ nxt2[w] = nxt[w] /\ nxt[w] # 0
          /\ prv[w] # 0 => nxt2[prv[w]] = w
      BY <1>1, <2>1, <2>3
    <3>2. \A x \in S \ {w} : \/ prv[w] # 0 /\ stamp2[x] <= stamp2[prv[w]]
                             \/ stamp2[nxt[w]] <= stamp2[x]
      BY <2>1, <3>1
    <3>3. stamp2[nxt[w]] <= stamp2[v]
      BY <2>1, <3>1
    <3> QED BY <2>1, <2>3, <3>1, <3>2, <3>3
  <2> QED BY <2>2, <2>3
<1> QED BY <1>2, <1>3 DEF Linked

LEMMA LinkedRemove ==
  ASSUME NEW S, 0 \notin S, NEW first \in S, NEW last \in S, NEW prv, NEW nxt, NEW stamp,
         Linked(S, first, last, prv, nxt, stamp), \A w \in S : stamp[w] \in Int,
         NEW v \in S, v # last, NEW prv2, NEW nxt2,
         NEW first2, prv[v] = 0 => first2 = nxt[v], prv[v] # 0 => first2 = first,
         \A w \in S : /\ prv2[w] = IF w = nxt[v] THEN prv[v] ELSE prv[w]
                      /\ nxt2[w] = IF w = prv[v] THEN nxt[v] ELSE nxt[w]
  PROVE  Linked(S \ {v}, first2, last, prv2, nxt2, stamp)
<1> SUFFICES ASSUME NEW w \in S \ {v}
             PROVE  /\ prv2[w] = 0 <=> first2 = w
                    /\ nxt2[w] = 0 <=> last = w
                    /\ prv2[w] # 0 => /\ prv2[w] \in S \ {v} /\ nxt2[prv2[w]] = w
                                      /\ stamp[prv2[w]] < stamp[w]
                    /\ nxt2[w] # 0 => /\ nxt2[w] \in S \ {v} /\ prv2[nxt2[w]] = w
                                      /\ stamp[w] < stamp[nxt2[w]]
                    /\ \A x \in (S \ {v}) \ {w} :
                         \/ prv2[w] # 0 /\ stamp[x] <= stamp[prv2[w]]
                         \/ nxt2[w] # 0 /\ stamp[nxt2[w]] <= stamp[x]
  BY DEF Linked
<1>1. \A y \in S :
        /\ prv[y] = 0 <=> first = y
        /\ nxt[y] = 0 <=> last = y
        /\ prv[y] # 0 => prv[y] \in S /\ nxt[prv[y]] = y /\ stamp[prv[y]] < stamp[y]
        /\ nxt[y] # 0 => nxt[y] \in S /\ prv[nxt[y]] = y /\ stamp[y] < stamp[nxt[y]]
        /\ \A x \in S \ {y} : \/ prv[y] # 0 /\ stamp[x] <= stamp[prv[y]]
                              \/ nxt[y] # 0 /\ stamp[nxt[y]] <= stamp[x]
  BY DEF Linked
<1>2. nxt[v] \in S /\ nxt[v] # 0 /\ nxt[v] # v /\ prv[nxt[v]] = v /\ stamp[v] < stamp[nxt[v]]
  BY <1>1
<1>3. CASE w = nxt[v]
  <2>1. prv2[w] = prv[v] /\ nxt2[w] = nxt[w]
    <3>1. w # prv[v]
      BY <1>1, <1>3
    <3> QED BY <1>3, <3>1
  <2>2. nxt2[w] # 0 => nxt2[w] \in S \ {v} /\ prv2[nxt2[w]] = w /\ stamp[w] < stamp[nxt2[w]]
    BY <1>1, <1>2, <1>3, <2>1
  <2>3. prv2[w] # 0 => prv2[w] \in S \ {v} /\ nxt2[prv2[w]] = w /\ stamp[prv2[w]] < stamp[w]
    BY <1>1, <1>2, <1>3, <2>1
  <2>4. ASSUME NEW x \in (S \ {v}) \ {w}
        PROVE  \/ prv2[w] # 0 /\ stamp[x] <= stamp[prv2[w]]
               \/ nxt2[w] # 0 /\ stamp[nxt2[w]] <= stamp[x]
    <3>1. \/ prv[v] # 0 /\ stamp[x] <= stamp[prv[v]]
          \/ stamp[w] <= stamp[x]
      BY <1>1, <1>3
    <3>2. \/ stamp[x] <= stamp[v]
          \/ nxt[w] # 0 /\ stamp[nxt[w]] <= stamp[x]
      BY <1>1, <1>2, <1>3
    <3>3. stamp[v] < stamp[w] /\ stamp[x] \in Int /\ stamp[w] \in Int /\ stamp[v] \in Int
      BY <1>2, <1>3
    <3> QED BY <2>1, <3>1, <3>2, <3>3
  <2> QED BY <1>1, <1>2, <1>3, <2>1, <2>2, <2>3, <2>4
<1>4. CASE w # nxt[v] /\ w = prv[v]
  <2>1. prv2[w] = prv[w] /\ nxt2[w] = nxt[v] /\ nxt[w] = v
    BY <1>1, <1>4
  <2>2. nxt2[w] # 0 /\ nxt2[w] \in S \ {v} /\ prv2[nxt2[w]] = w /\ stamp[w] < stamp[nxt2[w]]
    BY <1>1, <1>2, <1>4, <2>1
  <2>3. prv2[w] # 0 => prv2[w] \in S \ {v} /\ nxt2[prv2[w]] = w /\ stamp[prv2[w]] < stamp[w]
    BY <1>1, <1>2, <1>4, <2>1
  <2>4. ASSUME NEW x \in (S \ {v}) \ {w}
        PROVE  \/ prv2[w] # 0 /\ stamp[x] <= stamp[prv2[w]]
               \/ nxt2[w] # 0 /\ stamp[nxt2[w]] <= stamp[x]
    <3>1. \/ prv[w] # 0 /\ stamp[x] <= stamp[prv[w]]
          \/ stamp[v] <= stamp[x]
      BY <1>1, <2>1
    <3>2. \/ stamp[x] <= stamp[w]
          \/ stamp[nxt[v]] <= stamp[x]
      BY <1>1, <1>4
    <3>3. stamp[w] < stamp[v] /\ stamp[x] \in Int /\ stamp[w] \in Int /\ stamp[v] \in Int
      BY <1>1, <1>4
    <3> QED BY <1>2, <2>1, <3>1, <3>2, <3>3
  <2> QED BY <1>1, <1>2, <1>4, <2>1, <2>2, <2>3, <2>4
<1>5. CASE w # nxt[v] /\ w # prv[v]
  <2>1. prv2[w] = prv[w] /\ nxt2[w] = nxt[w]
    BY <1>5
  <2>2. nxt[w] # v /\ prv[w] # v
    BY <1>1, <1>5
  <2>3. nxt[w] # 0 => nxt[w] # nxt[v] /\ prv2[nxt[w]] = w
    BY <1>1, <1>5
  <2>4. prv[w] # 0 => prv[w] # prv[v] /\ nxt2[prv[w]] = w
    BY <1>1, <1>5
  <2>5. prv[w] = 0 <=> first2 = w
    BY <1>1, <1>2, <1>5
  <2> QED BY <1>1, <2>1, <2>2, <2>3, <2>4, <2>5
<1> QED BY <1>3, <1>4, <1>5

LEMMA LinkedSingle ==
  ASSUME NEW v, v # 0, NEW prv, NEW nxt, NEW stamp, prv[v] = 0, nxt[v] = 0
  PROVE  Linked({v}, v, v, prv, nxt, stamp)
BY DEF Linked

-----------------------------------------------------------------------------
\* The variables of a queue that has any are among 1 .. MaxVar.
LEMMA Variables ==
  ASSUME TypeOK
  PROVE  /\ MaxVar \in Nat /\ max_var \in Nat /\ max_var <= MaxVar
         /\ Enqueued \subseteq Var /\ Var \subseteq Nat \ {0} /\ 0 \notin Enqueued
         /\ max_var # 0 => 1 \in Enqueued
         /\ max_var = 0 => Enqueued = {}
BY VmtfAssumption DEF TypeOK, Enqueued, Var

LEMMA ControlEntry ==
  ASSUME TypeOK, NEW n \in DOMAIN control
  PROVE  control[n].trail \in Nat /\ control[n].decision \in Var
<1>1. control \in Seq([decision : Var, trail : Nat]) /\ n \in 1 .. Len(control)
  BY SMTT(60) DEF TypeOK
<1>2. control[n] \in [decision : Var, trail : Nat]
  BY <1>1, ElementOfSeq
<1> QED BY <1>2

LEMMA FirstDecision ==
  ASSUME TypeOK, control # <<>>
  PROVE  1 \in DOMAIN control /\ Len(control) > 0 /\ control[1].trail \in Nat
<1>1. control \in Seq([decision : Var, trail : Nat])
  BY DEF TypeOK
<1>2. 1 \in DOMAIN control /\ Len(control) > 0
  BY <1>1, EmptySeq
<1> QED BY <1>2, ControlEntry

LEMMA AboveRootAssigned ==
  ASSUME TypeOK, TrailOrdered
  PROVE  AboveRoot \subseteq Assigned
<1>1. CASE control = <<>>
  BY <1>1 DEF AboveRoot
<1>2. CASE control # <<>>
  <2>1. control[1].trail \in Nat /\ trail \in Seq(Var)
    BY <1>2, FirstDecision DEF TypeOK
  <2> QED BY <1>2, <2>1 DEF AboveRoot, Assigned
<1> QED BY <1>1, <1>2

THEOREM InitQueue == Init => QueueKept
<1> SUFFICES ASSUME Init PROVE QueueKept
  OBVIOUS
<1> USE VmtfAssumption DEF Init
<1>1. Enqueued = {} /\ Assigned = {} /\ AboveRoot = {}
  BY DEF Enqueued, Assigned, AboveRoot
<1>2. TypeOK
  BY DEF TypeOK, Var
<1>3. TrailOrdered
  BY <1>1 DEF TrailOrdered
<1>4. QueueOrdered
  BY <1>1 DEF QueueOrdered, Linked
<1>5. UnassignedBound
  BY <1>1 DEF UnassignedBound
<1> QED BY <1>2, <1>3, <1>4, <1>5 DEF QueueKept, SearchFinds, BumpsAssigned

-----------------------------------------------------------------------------
LEMMA EnqueueFrontKept ==
  ASSUME QueueKept, InitEnqueue, NEW v, v = max_var + 1, EnqueueFront(v)
  PROVE  QueueKept'
<1>0. /\ TypeOK /\ TrailOrdered /\ QueueOrdered /\ UnassignedBound
      /\ pc = "search" /\ control = <<>> /\ UNCHANGED <<reverse, search, pc, res, analyzed>>
      /\ max_var < MaxVar /\ max_var' = v /\ trail' = trail /\ control' = control
  BY DEF QueueKept, InitEnqueue, search
<1>1. /\ v \in Var /\ v \notin Enqueued /\ v # 0 /\ Enqueued' = Enqueued \cup {v}
      /\ max_var' # 0 /\ max_var \in Nat /\ Enqueued \subseteq Var /\ 0 \notin Enqueued
  BY <1>0, VmtfAssumption DEF TypeOK, Enqueued, Var
<1>2. /\ Assigned' = Assigned /\ AboveRoot = {} /\ AboveRoot' = {} /\ v \notin Assigned
      /\ Assigned \subseteq Enqueued
  BY <1>0, <1>1 DEF Assigned, AboveRoot, TrailOrdered, search
<1>3. TypeOK'
  <2>1. /\ queue.first \in Var \cup {0} /\ queue.last \in Var \cup {0}
        /\ queue.unassigned \in Var \cup {0} /\ queue.bumped \in Int
    BY <1>0 DEF TypeOK
  <2>2. /\ queue' \in [first : Var \cup {0}, last : Var \cup {0}, unassigned : Var \cup {0},
                      bumped : Int]
    BY <1>1, <2>1 DEF EnqueueFront
  <2>3. prev' \in [Var -> Var \cup {0}] /\ next' \in [Var -> Var \cup {0}]
    BY <1>0, <1>1, <2>1 DEF TypeOK, EnqueueFront
  <2>4. btab' \in [Var -> Int]
    <3>1. queue.first # 0 => btab[queue.first] \in Int
      BY <1>0, <2>1 DEF TypeOK
    <3> QED BY <1>0, <1>1, <2>1, <3>1 DEF TypeOK, EnqueueFront
  <2>5. /\ reverse' \in BOOLEAN /\ max_var' \in 0 .. MaxVar /\ bumped' \in Nat
        /\ trail' \in Seq(Var) /\ control' \in Seq([decision : Var, trail : Nat])
        /\ pc' \in {"search", "decide", "restart", "bump"} /\ res' \in Var \cup {0}
        /\ analyzed' \subseteq Var
    BY <1>0, <1>1, VmtfAssumption DEF TypeOK, EnqueueFront
  <2> QED BY <2>2, <2>3, <2>4, <2>5 DEF TypeOK
<1>4. TrailOrdered'
  BY <1>0, <1>1, <1>2 DEF TrailOrdered, search
<1>5. /\ prev'[v] = 0 /\ next'[v] = queue.first
      /\ \A w \in Enqueued : /\ btab'[w] = btab[w] /\ next'[w] = next[w]
                             /\ prev'[w] = IF w = queue.first THEN v ELSE prev[w]
      /\ btab'[v] = IF queue.first = 0 THEN 0 ELSE btab[queue.first] - 1
      /\ queue'.first = v /\ queue'.last = (IF queue.first = 0 THEN v ELSE queue.last)
      /\ queue'.unassigned = (IF queue.unassigned = 0 THEN v ELSE queue.unassigned)
      /\ queue'.bumped = (IF queue.unassigned = 0 THEN 0 ELSE queue.bumped)
      /\ bumped' = bumped
  BY <1>0, <1>1 DEF TypeOK, EnqueueFront
<1>6. CASE max_var = 0
  <2>1. Enqueued = {} /\ queue.first = 0 /\ queue.last = 0 /\ queue.unassigned = 0
    BY <1>0, <1>6 DEF QueueOrdered, Enqueued
  <2>2. Linked({v}, v, v, prev', next', btab')
    BY <1>1, <1>5, <2>1, LinkedSingle
  <2>3. QueueOrdered'
    BY <1>0, <1>1, <1>5, <2>1, <2>2 DEF QueueOrdered, TypeOK
  <2>4. UnassignedBound'
    BY <1>0, <1>1, <1>2, <1>5, <2>1 DEF UnassignedBound, TypeOK
  <2> QED BY <1>0, <1>3, <1>4, <2>3, <2>4 DEF QueueKept, SearchFinds, BumpsAssigned
<1>7. CASE max_var # 0
  <2>1. {queue.first, queue.last, queue.unassigned} \subseteq Enqueued
    BY <1>0, <1>1, <1>7 DEF QueueOrdered
  <2>2. \A w \in Enqueued : btab[w] \in Int
    BY <1>0, <1>1 DEF TypeOK
  <2>3. Linked(Enqueued, queue.first, queue.last, prev, next, btab)
    BY <1>0 DEF QueueOrdered
  <2>4. \A w \in Enqueued : btab[queue.first] <= btab[w]
    BY <1>1, <2>1, <2>2, <2>3, LinkedEnds
  <2>5. btab'[v] \in Int /\ \A w \in Enqueued : btab'[v] < btab[w]
    <3>1. btab'[v] = btab[queue.first] - 1 /\ btab[queue.first] \in Int
      BY <1>1, <1>5, <2>1, <2>2
    <3> QED BY <2>2, <2>4, <3>1
  <2>6. Linked(Enqueued \cup {v}, v, queue.last, prev', next', btab')
    <3>1. /\ prev'[v] = 0 /\ next'[v] = queue.first
          /\ \A w \in Enqueued : /\ prev'[w] = IF w = queue.first THEN v ELSE prev[w]
                                 /\ next'[w] = next[w] /\ btab'[w] = btab[w] /\ btab'[v] < btab[w]
      BY <1>5, <2>5
    <3>2. queue.first \in Enqueued /\ queue.last \in Enqueued /\ btab'[v] \in Int
      BY <2>1, <2>5
    <3>3. v # 0 /\ v \notin Enqueued /\ 0 \notin Enqueued
      BY <1>1
    <3> QED BY <2>2, <2>3, <3>1, <3>2, <3>3, LinkedPrepend
  <2>7. QueueOrdered'
    <3>1. \A w \in Enqueued : btab[w] <= bumped /\ bumped \in Nat
      BY <1>0 DEF QueueOrdered, TypeOK
    <3>2. btab'[v] <= bumped
      BY <2>1, <2>2, <2>5, <3>1
    <3>3. \A w \in Enqueued' : btab'[w] <= bumped'
      BY <1>1, <1>5, <3>1, <3>2
    <3> QED BY <1>1, <1>5, <2>1, <2>6, <3>3 DEF QueueOrdered
  <2>8. UnassignedBound'
    <3>1. queue.bumped = btab[queue.unassigned] /\ queue.bumped <= bumped
      BY <1>0, <1>1, <1>2, <1>7, <2>1 DEF UnassignedBound, TypeOK
    <3>2. queue'.bumped = queue.bumped /\ queue'.unassigned = queue.unassigned
      BY <1>1, <1>5, <2>1
    <3>3. btab'[queue.unassigned] = btab[queue.unassigned] /\ btab'[v] <= queue.bumped
      BY <1>5, <2>1, <2>2, <2>5, <3>1
    <3>4. \A w \in Enqueued' \ Assigned' : btab'[w] <= queue.bumped
      BY <1>0, <1>1, <1>2, <1>5, <3>3 DEF UnassignedBound
    <3> QED BY <1>2, <1>5, <3>1, <3>2, <3>3, <3>4, <2>1, <2>2 DEF UnassignedBound
  <2> QED BY <1>0, <1>3, <1>4, <2>7, <2>8 DEF QueueKept, SearchFinds, BumpsAssigned
<1> QED BY <1>6, <1>7

LEMMA EnqueueBackKept ==
  ASSUME QueueKept, InitEnqueue, NEW v, v = max_var + 1, EnqueueBack(v)
  PROVE  QueueKept'
<1>0. /\ TypeOK /\ TrailOrdered /\ QueueOrdered /\ UnassignedBound
      /\ pc = "search" /\ control = <<>> /\ UNCHANGED <<reverse, search, pc, res, analyzed>>
      /\ max_var < MaxVar /\ max_var' = v /\ trail' = trail /\ control' = control
  BY DEF QueueKept, InitEnqueue, search
<1>1. /\ v \in Var /\ v \notin Enqueued /\ v # 0 /\ Enqueued' = Enqueued \cup {v}
      /\ max_var' # 0 /\ max_var \in Nat /\ Enqueued \subseteq Var /\ 0 \notin Enqueued
  BY <1>0, VmtfAssumption DEF TypeOK, Enqueued, Var
<1>2. /\ Assigned' = Assigned /\ AboveRoot = {} /\ AboveRoot' = {} /\ v \notin Assigned
      /\ Assigned \subseteq Enqueued
  BY <1>0, <1>1 DEF Assigned, AboveRoot, TrailOrdered, search
<1>3. TypeOK'
  <2>1. queue.first \in Var \cup {0} /\ queue.last \in Var \cup {0} /\ bumped \in Nat
    BY <1>0 DEF TypeOK
  <2>2. queue' \in [first : Var \cup {0}, last : Var \cup {0}, unassigned : Var \cup {0},
                    bumped : Int]
    BY <1>1, <2>1 DEF EnqueueBack
  <2>3. prev' \in [Var -> Var \cup {0}] /\ next' \in [Var -> Var \cup {0}]
    BY <1>0, <1>1, <2>1 DEF TypeOK, EnqueueBack
  <2>4. btab' \in [Var -> Int] /\ bumped' \in Nat
    BY <1>0, <1>1, <2>1 DEF TypeOK, EnqueueBack
  <2>5. /\ reverse' \in BOOLEAN /\ max_var' \in 0 .. MaxVar
        /\ trail' \in Seq(Var) /\ control' \in Seq([decision : Var, trail : Nat])
        /\ pc' \in {"search", "decide", "restart", "bump"} /\ res' \in Var \cup {0}
        /\ analyzed' \subseteq Var
    BY <1>0, <1>1, VmtfAssumption DEF TypeOK
  <2> QED BY <2>2, <2>3, <2>4, <2>5 DEF TypeOK
<1>4. TrailOrdered'
  BY <1>0, <1>1, <1>2 DEF TrailOrdered, search
<1>5. /\ next'[v] = 0 /\ prev'[v] = queue.last /\ btab'[v] = bumped + 1
      /\ \A w \in Enqueued : /\ btab'[w] = btab[w] /\ prev'[w] = prev[w]
                             /\ next'[w] = IF w = queue.last THEN v ELSE next[w]
      /\ queue'.last = v /\ queue'.first = (IF queue.last = 0 THEN v ELSE queue.first)
      /\ queue'.unassigned = v /\ queue'.bumped = bumped + 1 /\ bumped' = bumped + 1
  BY <1>0, <1>1 DEF TypeOK, EnqueueBack
<1>6. bumped \in Nat /\ \A w \in Enqueued : btab[w] \in Int /\ btab[w] <= bumped
  BY <1>0, <1>1 DEF TypeOK, QueueOrdered
<1>7. Linked(Enqueued', queue'.first, v, prev', next', btab')
  <2>1. CASE max_var = 0
    <3>1. Enqueued' = {v} /\ queue.last = 0
      BY <1>0, <1>1, <2>1 DEF QueueOrdered, Enqueued
    <3> QED BY <1>1, <1>5, <3>1, LinkedSingle
  <2>2. CASE max_var # 0
    <3>1. queue.first \in Enqueued /\ queue.last \in Enqueued
      BY <1>0, <2>2 DEF QueueOrdered
    <3>2. Linked(Enqueued, queue.first, queue.last, prev, next, btab)
      BY <1>0 DEF QueueOrdered
    <3>3. /\ next'[v] = 0 /\ prev'[v] = queue.last /\ btab'[v] \in Int
          /\ \A w \in Enqueued : /\ next'[w] = IF w = queue.last THEN v ELSE next[w]
                                 /\ prev'[w] = prev[w] /\ btab'[w] = btab[w] /\ btab[w] < btab'[v]
      BY <1>5, <1>6
    <3>4. v # 0 /\ v \notin Enqueued /\ 0 \notin Enqueued /\ \A w \in Enqueued : btab[w] \in Int
      BY <1>1, <1>6
    <3>5. Linked(Enqueued \cup {v}, queue.first, v, prev', next', btab')
      BY <3>1, <3>2, <3>3, <3>4, LinkedAppend
    <3> QED BY <1>1, <1>5, <3>1, <3>4, <3>5
  <2> QED BY <2>1, <2>2
<1>8. QueueOrdered'
  <2>1. queue'.first \in Enqueued'
    BY <1>0, <1>1, <1>5 DEF QueueOrdered
  <2>2. \A w \in Enqueued' : btab'[w] <= bumped'
    BY <1>1, <1>5, <1>6
  <2> QED BY <1>1, <1>5, <1>7, <2>1, <2>2 DEF QueueOrdered
<1>9. UnassignedBound'
  BY <1>0, <1>1, <1>2, <1>5, <1>6 DEF UnassignedBound
<1> QED BY <1>0, <1>3, <1>4, <1>8, <1>9 DEF QueueKept, SearchFinds, BumpsAssigned

-----------------------------------------------------------------------------
\* The trail grows by an unassigned variable.
LEMMA TrailGrows ==
  ASSUME TypeOK, TrailOrdered, NEW v \in Enqueued \ Assigned, trail' = Append(trail, v),
         max_var' = max_var
  PROVE  /\ trail' \in Seq(Var) /\ Len(trail') = Len(trail) + 1 /\ trail'[Len(trail) + 1] = v
         /\ \A n \in DOMAIN trail : trail'[n] = trail[n]
         /\ Assigned' = Assigned \cup {v} /\ Enqueued' = Enqueued
         /\ \A m, n \in DOMAIN trail' : trail'[m] = trail'[n] => m = n
<1>1. trail \in Seq(Var) /\ v \in Var
  BY Variables DEF TypeOK
<1>2. /\ trail' \in Seq(Var) /\ Len(trail') = Len(trail) + 1 /\ trail'[Len(trail) + 1] = v
      /\ \A n \in DOMAIN trail : trail'[n] = trail[n]
      /\ DOMAIN trail = 1 .. Len(trail) /\ Len(trail) \in Nat
      /\ DOMAIN trail' = 1 .. Len(trail) + 1
  BY <1>1
<1>3. Assigned' = Assigned \cup {v} /\ Enqueued' = Enqueued
  BY <1>2 DEF Assigned, Enqueued
<1>4. \A m, n \in DOMAIN trail' : trail'[m] = trail'[n] => m = n
  BY <1>2 DEF TrailOrdered, Assigned
<1> QED BY <1>2, <1>3, <1>4

LEMMA PropagateKept ==
  ASSUME QueueKept, NEW v \in Var, Propagate(v)
  PROVE  QueueKept'
<1>0. /\ TypeOK /\ TrailOrdered /\ QueueOrdered /\ UnassignedBound
      /\ v \in Enqueued \ Assigned /\ trail' = Append(trail, v) /\ pc = "search"
      /\ UNCHANGED <<reverse, max_var, links, queue, btab, bumped, control, pc, res, analyzed>>
  BY DEF QueueKept, Propagate
<1>1. /\ trail' \in Seq(Var) /\ Len(trail') = Len(trail) + 1 /\ trail'[Len(trail) + 1] = v
      /\ \A n \in DOMAIN trail : trail'[n] = trail[n]
      /\ Assigned' = Assigned \cup {v} /\ Enqueued' = Enqueued
      /\ \A m, n \in DOMAIN trail' : trail'[m] = trail'[n] => m = n
  BY <1>0, TrailGrows
<1>2. TypeOK'
  BY <1>0, <1>1 DEF TypeOK, links
<1>3. AboveRoot \subseteq AboveRoot'
  <2>1. CASE control = <<>>
    BY <2>1 DEF AboveRoot
  <2>2. CASE control # <<>>
    <3>1. control[1].trail \in Nat /\ trail \in Seq(Var)
      BY <1>0, <2>2, FirstDecision DEF TypeOK
    <3> QED BY <1>0, <1>1, <2>2, <3>1 DEF AboveRoot
  <2> QED BY <2>1, <2>2
<1>4. TrailOrdered'
  <2>1. Assigned' \subseteq Enqueued'
    BY <1>0, <1>1 DEF TrailOrdered
  <2>2. ASSUME NEW n \in DOMAIN control
        PROVE  control[n].trail < Len(trail') /\ trail'[control[n].trail + 1] = control[n].decision
    <3>1. control[n].trail \in Nat /\ trail \in Seq(Var)
      BY <1>0, ControlEntry DEF TypeOK
    <3>2. control[n].trail < Len(trail) /\ trail[control[n].trail + 1] = control[n].decision
      BY <1>0 DEF TrailOrdered
    <3> QED BY <1>1, <3>1, <3>2
  <2> QED BY <1>0, <1>1, <2>1, <2>2 DEF TrailOrdered
<1>5. QueueOrdered'
  BY <1>0, <1>1 DEF QueueOrdered, links
<1>6. UnassignedBound'
  BY <1>0, <1>1, <1>3 DEF UnassignedBound
<1> QED BY <1>0, <1>2, <1>4, <1>5, <1>6 DEF QueueKept, SearchFinds, BumpsAssigned

LEMMA NextDecisionKept ==
  ASSUME QueueKept, NEW caller \in {"decide", "restart"}, NextDecision(caller)
  PROVE  QueueKept'
<1>0. /\ TypeOK /\ TrailOrdered /\ QueueOrdered /\ UnassignedBound
      /\ Enqueued \ Assigned # {} /\ pc' = caller /\ res' = queue.unassigned
      /\ UNCHANGED <<reverse, max_var, links, queue, btab, bumped, search, analyzed>>
  BY DEF QueueKept, NextDecision
<1>1. /\ Enqueued' = Enqueued /\ Assigned' = Assigned /\ AboveRoot' = AboveRoot
      /\ Enqueued \subseteq Var /\ trail' = trail /\ control' = control
  BY <1>0, Variables DEF Enqueued, Assigned, AboveRoot, search
<1>2. max_var # 0 /\ max_var > 0 /\ queue.unassigned \in Enqueued
  <2>1. max_var # 0
    BY <1>0, Variables
  <2> QED BY <1>0, <2>1, Variables DEF QueueOrdered
<1>3. \A v \in Enqueued \ Assigned : btab[v] <= btab[queue.unassigned]
  <2>1. queue.bumped \in Int /\ \A v \in Enqueued : btab[v] \in Int
    BY <1>0, <1>1 DEF TypeOK
  <2>2. queue.bumped <= btab[queue.unassigned] /\ \A v \in Enqueued \ Assigned : btab[v] <= queue.bumped
    BY <1>0, <1>2 DEF UnassignedBound
  <2> QED BY <1>2, <2>1, <2>2
<1>4. TypeOK'
  BY <1>0, <1>1, <1>2 DEF TypeOK, links
<1>5. TrailOrdered' /\ QueueOrdered' /\ UnassignedBound'
  BY <1>0, <1>1 DEF TrailOrdered, QueueOrdered, UnassignedBound, links
<1>6. SearchFinds' /\ BumpsAssigned'
  BY <1>0, <1>1, <1>2, <1>3 DEF SearchFinds, BumpsAssigned
<1> QED BY <1>4, <1>5, <1>6 DEF QueueKept

LEMMA SearchPreviousKept ==
  ASSUME QueueKept, SearchPrevious
  PROVE  QueueKept'
<1>0. /\ TypeOK /\ TrailOrdered /\ QueueOrdered /\ UnassignedBound /\ SearchFinds
      /\ pc \in {"decide", "restart"} /\ res \in Assigned /\ res' = prev[res]
      /\ UNCHANGED <<reverse, max_var, links, queue, btab, bumped, search, pc, analyzed>>
  BY DEF QueueKept, SearchPrevious
<1>1. /\ Enqueued' = Enqueued /\ Assigned' = Assigned /\ AboveRoot' = AboveRoot
      /\ Enqueued \subseteq Var /\ trail' = trail /\ control' = control
  BY <1>0, Variables DEF Enqueued, Assigned, AboveRoot, search
<1>2. /\ res \in Enqueued /\ Enqueued \ Assigned # {}
      /\ \A v \in Enqueued \ Assigned : btab[v] <= btab[res]
  BY <1>0 DEF SearchFinds
<1>3. /\ prev[res] \in Enqueued
      /\ \A v \in Enqueued \ Assigned : btab[v] <= btab[prev[res]]
  <2>1. /\ prev[res] # 0 => prev[res] \in Enqueued /\ btab[prev[res]] < btab[res]
        /\ next[res] # 0 => next[res] \in Enqueued /\ btab[res] < btab[next[res]]
        /\ \A v \in Enqueued \ {res} : \/ prev[res] # 0 /\ btab[v] <= btab[prev[res]]
                                       \/ next[res] # 0 /\ btab[next[res]] <= btab[v]
    BY <1>0, <1>2 DEF QueueOrdered, Linked
  <2>2. \A v \in Enqueued : btab[v] \in Int
    BY <1>0, <1>1 DEF TypeOK
  <2>3. ASSUME NEW v \in Enqueued \ Assigned
        PROVE  prev[res] # 0 /\ btab[v] <= btab[prev[res]]
    BY <1>0, <1>2, <2>1, <2>2
  <2> QED BY <1>2, <2>1, <2>3
<1>4. TypeOK'
  BY <1>0, <1>1, <1>3 DEF TypeOK, links
<1>5. TrailOrdered' /\ QueueOrdered' /\ UnassignedBound'
  BY <1>0, <1>1 DEF TrailOrdered, QueueOrdered, UnassignedBound, links
<1>6. SearchFinds' /\ BumpsAssigned'
  BY <1>0, <1>1, <1>2, <1>3 DEF SearchFinds, BumpsAssigned
<1> QED BY <1>4, <1>5, <1>6 DEF QueueKept

-----------------------------------------------------------------------------
\* What makes q, first for the queue and then for its update, a bound.
Bounds(q) ==
  /\ q \in [first : Var \cup {0}, last : Var \cup {0}, unassigned : Var \cup {0}, bumped : Int]
  /\ q.first = queue.first /\ q.last = queue.last
  /\ q.unassigned \in Enqueued /\ q.bumped <= btab[q.unassigned] /\ q.bumped <= bumped
  /\ q.unassigned \notin AboveRoot => q.bumped = btab[q.unassigned]
  /\ \A v \in Enqueued \ Assigned : btab[v] <= q.bumped

LEMMA QueueBounds ==
  ASSUME TypeOK, QueueOrdered, UnassignedBound, max_var > 0
  PROVE  Bounds(queue)
<1>1. max_var # 0
  BY Variables
<1> QED BY <1>1 DEF Bounds, TypeOK, QueueOrdered, UnassignedBound

LEMMA FoundBounds ==
  ASSUME QueueKept, pc \in {"decide", "restart"}, Found
  PROVE  /\ Bounds(WithUnassigned(res))
         /\ WithUnassigned(res).unassigned = res /\ WithUnassigned(res).bumped = btab[res]
<1>1. /\ TypeOK /\ TrailOrdered /\ QueueOrdered /\ UnassignedBound /\ SearchFinds
      /\ res \in Enqueued \ Assigned /\ AboveRoot \subseteq Assigned
  BY AboveRootAssigned DEF QueueKept, Found
<1>2. /\ max_var > 0 /\ Enqueued \subseteq Var /\ btab[res] \in Int
      /\ \A v \in Enqueued \ Assigned : btab[v] <= btab[res]
  BY <1>1, Variables DEF SearchFinds, TypeOK
<1>3. Bounds(queue)
  BY <1>1, <1>2, QueueBounds
<1>4. CASE res = queue.unassigned
  BY <1>1, <1>3, <1>4 DEF WithUnassigned, Bounds
<1>5. CASE res # queue.unassigned
  <2>1. /\ WithUnassigned(res) = [queue EXCEPT !.unassigned = res, !.bumped = btab[res]]
        /\ btab[res] <= bumped
    BY <1>1, <1>5 DEF WithUnassigned, QueueOrdered
  <2> QED BY <1>1, <1>2, <1>3, <2>1 DEF Bounds
<1> QED BY <1>4, <1>5

\* The variables a backtrack to level k unassigns.
Undone(k) == {trail[n] : n \in control[k + 1].trail + 1 .. Len(trail)}

LEMMA TrailCut ==
  ASSUME TypeOK, TrailOrdered, NEW k \in 0 .. Level, k < Level, max_var' = max_var,
         trail' = SubSeq(trail, 1, control[k + 1].trail), control' = SubSeq(control, 1, k)
  PROVE  /\ trail' \in Seq(Var) /\ control' \in Seq([decision : Var, trail : Nat])
         /\ Assigned' = Assigned \ Undone(k) /\ Undone(k) \subseteq Assigned /\ Undone(k) # {}
         /\ AboveRoot' = AboveRoot \ Undone(k)
         /\ Enqueued' = Enqueued /\ TrailOrdered'
<1>1. /\ trail \in Seq(Var) /\ control \in Seq([decision : Var, trail : Nat])
      /\ Len(control) \in Nat /\ Len(trail) \in Nat /\ k \in Nat /\ k + 1 \in DOMAIN control
      /\ DOMAIN control = 1 .. Len(control) /\ DOMAIN trail = 1 .. Len(trail)
  BY SMTT(60) DEF TypeOK, Level
<1> DEFINE h == control[k + 1].trail
<1>2. h \in Nat /\ h < Len(trail) /\ \A n \in DOMAIN control : control[n].trail \in Nat
  BY <1>1, ControlEntry DEF TrailOrdered
<1>3. /\ trail' \in Seq(Var) /\ Len(trail') = h /\ DOMAIN trail' = 1 .. h
      /\ \A n \in 1 .. h : trail'[n] = trail[n]
  BY <1>1, <1>2, SMTT(60)
<1>4. /\ control' \in Seq([decision : Var, trail : Nat]) /\ Len(control') = k
      /\ DOMAIN control' = 1 .. k /\ \A n \in 1 .. k : control'[n] = control[n]
  <2> DEFINE S == [decision : Var, trail : Nat]
  <2>1. ASSUME NEW i \in 1 .. k PROVE control[i] \in S
    <3>1. control \in Seq(S) /\ i \in 1 .. Len(control)
      BY <1>1
    <3> HIDE DEF S
    <3> QED BY <3>1, ElementOfSeq
  <2> HIDE DEF S
  <2>2. /\ SubSeq(control, 1, k) \in Seq(S)
        /\ Len(SubSeq(control, 1, k)) = IF 1 <= k THEN k - 1 + 1 ELSE 0
        /\ \A i \in 1 .. k - 1 + 1 : SubSeq(control, 1, k)[i] = control[1 + i - 1]
    BY <1>1, <2>1, SubSeqProperties
  <2> QED BY <1>1, <2>2 DEF S
<1>5. \A n \in 1 .. k : control'[n].trail < h /\ control'[n].trail \in Nat
  <2> SUFFICES ASSUME NEW n \in 1 .. k PROVE control[n].trail < h /\ control[n].trail \in Nat
    BY <1>4
  <2>1. n \in DOMAIN control /\ n < k + 1
    BY <1>1
  <2> QED BY <1>1, <1>2, <2>1 DEF TrailOrdered
<1>6. Undone(k) = {trail[n] : n \in h + 1 .. Len(trail)}
  BY DEF Undone
<1> HIDE DEF h
<1>11. \A m \in 1 .. h : \A n \in h + 1 .. Len(trail) : trail[m] # trail[n]
  <2> SUFFICES ASSUME NEW m \in 1 .. h, NEW n \in h + 1 .. Len(trail) PROVE trail[m] # trail[n]
    OBVIOUS
  <2>1. m \in DOMAIN trail /\ n \in DOMAIN trail /\ m # n
    BY <1>1, <1>2
  <2> QED BY <2>1 DEF TrailOrdered
<1>7. Assigned' = Assigned \ Undone(k) /\ Undone(k) \subseteq Assigned /\ Undone(k) # {}
  <2>1. Assigned = {trail[n] : n \in 1 .. Len(trail)} /\ Assigned' = {trail[n] : n \in 1 .. h}
    BY <1>1, <1>3 DEF Assigned
  <2>2. trail[h + 1] \in Undone(k)
    BY <1>1, <1>2, <1>6
  <2> QED BY <1>1, <1>2, <1>6, <1>11, <2>1, <2>2, SMTT(60)
<1>8. AboveRoot' = AboveRoot \ Undone(k)
  <2>1. control # <<>>
    BY <1>1, EmptySeq
  <2>2. CASE k = 0
    <3>1. control' = <<>>
      BY <1>4, <2>2, EmptySeq
    <3>2. AboveRoot = Undone(k)
      BY <1>6, <2>1, <2>2 DEF AboveRoot, h
    <3> QED BY <3>1, <3>2 DEF AboveRoot
  <2>3. CASE k # 0
    <3>1. control' # <<>> /\ control'[1] = control[1] /\ control[1].trail < h /\ control[1].trail \in Nat
      <4>1. 1 \in 1 .. k /\ Len(control') # 0
        BY <1>1, <1>4, <2>3
      <4> QED BY <1>4, <1>5, <4>1, EmptySeq
    <3>2. /\ AboveRoot = {trail[n] : n \in control[1].trail + 1 .. Len(trail)}
          /\ AboveRoot' = {trail[n] : n \in control[1].trail + 1 .. h}
      <4>1. AboveRoot' = {trail'[n] : n \in control[1].trail + 1 .. h}
        BY <1>3, <3>1 DEF AboveRoot
      <4>2. \A n \in control[1].trail + 1 .. h : n \in 1 .. h
        BY <1>2, <3>1
      <4> QED BY <1>3, <2>1, <4>1, <4>2, SMTT(60) DEF AboveRoot
    <3>3. \A n \in h + 1 .. Len(trail) : n \in control[1].trail + 1 .. Len(trail)
      BY <1>1, <1>2, <3>1, SMTT(60)
    <3>4. \A n \in control[1].trail + 1 .. Len(trail) :
            n \in control[1].trail + 1 .. h \/ n \in h + 1 .. Len(trail)
      BY <1>1, <1>2, <3>1
    <3>5. \A m \in control[1].trail + 1 .. h : m \in 1 .. h
      BY <1>1, <1>2, <3>1, SMTT(60)
    <3>6. AboveRoot' \cup Undone(k) = AboveRoot
      <4>1. \A n \in control[1].trail + 1 .. h : n \in control[1].trail + 1 .. Len(trail)
        BY <1>1, <1>2, <3>1
      <4> QED BY <1>6, <3>2, <3>3, <3>4, <4>1
    <3>7. AboveRoot' \cap Undone(k) = {}
      BY <1>6, <1>11, <3>2, <3>5
    <3> QED BY <3>6, <3>7
  <2> QED BY <2>2, <2>3
<1>9. Enqueued' = Enqueued
  BY DEF Enqueued
<1>10. TrailOrdered'
  <2>1. Assigned' \subseteq Enqueued'
    BY <1>7, <1>9 DEF TrailOrdered
  <2>2. \A m, n \in DOMAIN trail' : trail'[m] = trail'[n] => m = n
    <3>1. \A n \in DOMAIN trail' : n \in DOMAIN trail /\ trail'[n] = trail[n]
      BY <1>1, <1>2, <1>3, SMTT(60)
    <3> QED BY <3>1 DEF TrailOrdered
  <2>3. ASSUME NEW n \in DOMAIN control'
        PROVE  control'[n].trail < Len(trail') /\ trail'[control'[n].trail + 1] = control'[n].decision
    <3>1. n \in 1 .. k /\ n \in DOMAIN control /\ control'[n] = control[n]
      BY <1>1, <1>4
    <3>2. control[n].trail + 1 \in 1 .. h
      BY <1>2, <1>5, <3>1, SMTT(60)
    <3>3. trail[control[n].trail + 1] = control[n].decision
      BY <3>1 DEF TrailOrdered
    <3> QED BY <1>2, <1>3, <1>5, <3>1, <3>2, <3>3
  <2>4. \A m, n \in DOMAIN control' : m < n => control'[m].trail < control'[n].trail
    BY <1>1, <1>4, SMTT(60) DEF TrailOrdered
  <2> QED BY <2>1, <2>2, <2>3, <2>4 DEF TrailOrdered
<1> QED BY <1>3, <1>4, <1>7, <1>8, <1>9, <1>10

\* Backtracking from a queue with a bound gives one.
LEMMA BacktrackKept ==
  ASSUME TypeOK, TrailOrdered, QueueOrdered, NEW q, Bounds(q),
         NEW k \in 0 .. Level, k < Level, BacktrackFrom(q, k),
         UNCHANGED <<reverse, max_var, links, btab, bumped>>
  PROVE  /\ trail' \in Seq(Var) /\ control' \in Seq([decision : Var, trail : Nat])
         /\ queue' \in [first : Var \cup {0}, last : Var \cup {0}, unassigned : Var \cup {0},
                        bumped : Int]
         /\ TrailOrdered' /\ QueueOrdered' /\ UnassignedBound'
<1>1. /\ trail' = SubSeq(trail, 1, control[k + 1].trail) /\ control' = SubSeq(control, 1, k)
      /\ queue' = Unassign(q, Undone(k))
      /\ max_var' = max_var /\ next' = next /\ prev' = prev /\ btab' = btab /\ bumped' = bumped
  BY DEF BacktrackFrom, Undone, links
<1>2. /\ trail' \in Seq(Var) /\ control' \in Seq([decision : Var, trail : Nat])
      /\ Assigned' = Assigned \ Undone(k) /\ Undone(k) \subseteq Assigned /\ Undone(k) # {}
      /\ AboveRoot' = AboveRoot \ Undone(k)
      /\ Enqueued' = Enqueued /\ TrailOrdered'
  BY <1>1, TrailCut
<1>3. /\ Undone(k) \subseteq Enqueued /\ Enqueued \subseteq Var
      /\ \A v \in Enqueued : btab[v] \in Int /\ btab[v] <= bumped
      /\ max_var # 0 /\ bumped \in Nat
  BY <1>2, Variables DEF TrailOrdered, TypeOK, QueueOrdered
<1>4. /\ q \in [first : Var \cup {0}, last : Var \cup {0}, unassigned : Var \cup {0}, bumped : Int]
      /\ q.first = queue.first /\ q.last = queue.last
      /\ q.unassigned \in Enqueued /\ q.bumped <= btab[q.unassigned] /\ q.bumped <= bumped
      /\ q.unassigned \notin AboveRoot => q.bumped = btab[q.unassigned]
      /\ \A v \in Enqueued \ Assigned : btab[v] <= q.bumped
  BY DEF Bounds
<1>5. /\ queue' \in [first : Var \cup {0}, last : Var \cup {0}, unassigned : Var \cup {0}, bumped : Int]
      /\ queue'.first = queue.first /\ queue'.last = queue.last
      /\ queue'.unassigned \in Enqueued /\ queue'.bumped <= btab[queue'.unassigned]
      /\ queue'.unassigned \notin AboveRoot' => queue'.bumped = btab[queue'.unassigned]
      /\ \A v \in Enqueued \ Assigned' : btab[v] <= queue'.bumped
      /\ queue'.bumped <= bumped
  <2>1. CASE \E v \in Undone(k) : q.bumped < btab[v]
    <3> DEFINE last == CHOOSE v \in Undone(k) : \A w \in Undone(k) : btab[w] <= btab[v]
    <3>1. \E v \in Undone(k) : \A w \in Undone(k) : btab[w] <= btab[v]
      <4>1. btab \in [Var -> Int]
        BY DEF TypeOK
      <4>2. Undone(k) \subseteq Var /\ \A v \in Undone(k) : btab[v] <= bumped
        BY <1>3
      <4> QED BY <1>2, <1>3, <4>1, <4>2, LargestStamp
    <3>2. last \in Undone(k) /\ \A w \in Undone(k) : btab[w] <= btab[last]
      BY <3>1
    <3>3. queue' = [q EXCEPT !.unassigned = last, !.bumped = btab[last]]
      BY <1>1, <2>1 DEF Unassign
    <3> HIDE DEF last
    <3>4. btab[last] \in Int /\ last \in Enqueued /\ q.bumped \in Int /\ q.bumped < btab[last]
      BY <1>3, <1>4, <2>1, <3>2
    <3>5. \A v \in Enqueued \ Assigned' : btab[v] <= btab[last]
      BY <1>2, <1>3, <1>4, <3>2, <3>4
    <3>6. queue'.unassigned = last /\ queue'.bumped = btab[last]
      BY <1>4, <3>3
    <3>7. /\ queue' \in [first : Var \cup {0}, last : Var \cup {0}, unassigned : Var \cup {0}, bumped : Int]
          /\ queue'.first = queue.first /\ queue'.last = queue.last
      BY <1>3, <1>4, <3>3, <3>4
    <3>8. btab[last] <= btab[last] /\ btab[last] <= bumped
      BY <1>3, <3>4
    <3> QED BY <3>4, <3>5, <3>6, <3>7, <3>8
  <2>2. CASE ~\E v \in Undone(k) : q.bumped < btab[v]
    <3>1. queue' = q
      BY <1>1, <2>2 DEF Unassign
    <3>2. q.bumped \in Int /\ \A v \in Undone(k) : btab[v] <= q.bumped
      BY <1>3, <1>4, <2>2
    <3>3. q.unassigned \notin AboveRoot' => q.bumped = btab[q.unassigned]
      BY <1>2, <1>3, <1>4, <3>2
    <3>4. \A v \in Enqueued \ Assigned' : btab[v] <= q.bumped
      BY <1>2, <1>4, <3>2
    <3> QED BY <1>4, <3>1, <3>3, <3>4
  <2> QED BY <2>1, <2>2
<1>6. QueueOrdered'
  BY <1>1, <1>2, <1>3, <1>5 DEF QueueOrdered
<1>7. UnassignedBound'
  BY <1>1, <1>2, <1>5 DEF UnassignedBound
<1> QED BY <1>2, <1>5, <1>6, <1>7

-----------------------------------------------------------------------------
LEMMA DecideKept ==
  ASSUME QueueKept, Decide
  PROVE  QueueKept'
<1>0. /\ TypeOK /\ TrailOrdered /\ QueueOrdered /\ pc = "decide" /\ Found
      /\ queue' = WithUnassigned(res) /\ trail' = Append(trail, res)
      /\ control' = Append(control, [decision |-> res, trail |-> Len(trail)])
      /\ pc' = "search" /\ res' = 0
      /\ UNCHANGED <<reverse, max_var, links, btab, bumped, analyzed>>
  BY DEF QueueKept, Decide
<1>1. res \in Enqueued \ Assigned /\ Bounds(queue') /\ queue'.unassigned = res /\ queue'.bumped = btab[res]
  BY <1>0, FoundBounds DEF Found
<1>2. /\ trail' \in Seq(Var) /\ Len(trail') = Len(trail) + 1 /\ trail'[Len(trail) + 1] = res
      /\ \A n \in DOMAIN trail : trail'[n] = trail[n]
      /\ Assigned' = Assigned \cup {res} /\ Enqueued' = Enqueued
      /\ \A m, n \in DOMAIN trail' : trail'[m] = trail'[n] => m = n
  BY <1>0, <1>1, TrailGrows
<1>3. /\ control \in Seq([decision : Var, trail : Nat]) /\ res \in Var /\ Len(trail) \in Nat
      /\ trail \in Seq(Var) /\ Enqueued \subseteq Var /\ max_var # 0
  BY <1>0, <1>1, Variables DEF TypeOK
<1> DEFINE d == [decision |-> res, trail |-> Len(trail)]
<1>4. /\ control' \in Seq([decision : Var, trail : Nat]) /\ Len(control') = Len(control) + 1
      /\ DOMAIN control' = 1 .. Len(control) + 1 /\ DOMAIN control = 1 .. Len(control)
      /\ \A n \in DOMAIN control : control'[n] = control[n]
      /\ control'[Len(control) + 1] = d /\ d.decision = res /\ d.trail = Len(trail)
      /\ Len(control) \in Nat
  <2>1. d \in [decision : Var, trail : Nat]
    BY <1>3
  <2> HIDE DEF d
  <2>2. control' = Append(control, d)
    BY <1>0 DEF d
  <2>3. d.decision = res /\ d.trail = Len(trail)
    BY DEF d
  <2> QED BY <1>3, <2>1, <2>2, <2>3
<1> HIDE DEF d
<1>5. TypeOK'
  BY <1>0, <1>1, <1>2, <1>4 DEF TypeOK, Bounds, links
<1>6. TrailOrdered'
  <2>1. Assigned' \subseteq Enqueued'
    BY <1>0, <1>1, <1>2 DEF TrailOrdered
  <2>2. ASSUME NEW n \in DOMAIN control
        PROVE  /\ control[n].trail \in Nat /\ control[n].trail < Len(trail)
               /\ trail'[control[n].trail + 1] = control[n].decision
    <3>1. control[n].trail \in Nat
      BY <1>0, ControlEntry
    <3>2. control[n].trail < Len(trail) /\ trail[control[n].trail + 1] = control[n].decision
      BY <1>0 DEF TrailOrdered
    <3> QED BY <1>2, <1>3, <3>1, <3>2
  <2>3. \A n \in DOMAIN control' : /\ control'[n].trail < Len(trail')
                                  /\ trail'[control'[n].trail + 1] = control'[n].decision
    <3> SUFFICES ASSUME NEW n \in DOMAIN control'
                 PROVE  /\ control'[n].trail < Len(trail')
                        /\ trail'[control'[n].trail + 1] = control'[n].decision
      OBVIOUS
    <3>1. CASE n \in DOMAIN control
      <4>1. control'[n] = control[n]
        BY <1>4, <3>1
      <4> QED BY <1>2, <1>3, <2>2, <3>1, <4>1, SMTT(60)
    <3>2. CASE n = Len(control) + 1
      BY <1>2, <1>3, <1>4, <3>2, SMTT(60)
    <3> QED BY <1>4, <3>1, <3>2
  <2>4. \A m, n \in DOMAIN control' : m < n => control'[m].trail < control'[n].trail
    <3> SUFFICES ASSUME NEW m \in DOMAIN control', NEW n \in DOMAIN control', m < n
                 PROVE  control'[m].trail < control'[n].trail
      OBVIOUS
    <3>1. m \in DOMAIN control /\ control'[m] = control[m]
      BY <1>4
    <3>2. CASE n \in DOMAIN control
      BY <1>0, <1>4, <3>1, <3>2 DEF TrailOrdered
    <3>3. CASE n = Len(control) + 1
      BY <1>4, <2>2, <3>1, <3>3
    <3> QED BY <1>4, <3>2, <3>3
  <2> QED BY <1>2, <2>1, <2>3, <2>4 DEF TrailOrdered
<1>7. QueueOrdered'
  BY <1>0, <1>1, <1>2, <1>3 DEF QueueOrdered, Bounds, links
<1>8. UnassignedBound'
  <2>1. btab[res] \in Int /\ btab[res] <= btab[res] /\ btab[res] <= bumped
    BY <1>0, <1>1, <1>3 DEF TypeOK, QueueOrdered
  <2> QED BY <1>0, <1>1, <1>2, <1>3, <2>1 DEF UnassignedBound, Bounds
<1> QED BY <1>0, <1>5, <1>6, <1>7, <1>8 DEF QueueKept, SearchFinds, BumpsAssigned

LEMMA RestartKept ==
  ASSUME QueueKept, Restart
  PROVE  QueueKept'
<1>0. /\ TypeOK /\ TrailOrdered /\ QueueOrdered /\ pc = "restart" /\ Found
      /\ pc' = "search" /\ res' = 0
      /\ UNCHANGED <<reverse, max_var, links, btab, bumped, analyzed>>
  BY DEF QueueKept, Restart
<1> DEFINE q == WithUnassigned(res)
<1>1. Bounds(q) /\ Level \in Nat
  BY <1>0, FoundBounds DEF Level, TypeOK
<1> HIDE DEF q
<1>2. PICK k \in 0 .. Level : IF k < Level THEN BacktrackFrom(q, k)
                                         ELSE queue' = q /\ UNCHANGED search
  BY DEF Restart, q
<1>3. CASE k < Level
  <2>1. BacktrackFrom(q, k)
    BY <1>2, <1>3
  <2>2. UNCHANGED <<reverse, max_var, links, btab, bumped>>
    BY <1>0
  <2>3. /\ trail' \in Seq(Var) /\ control' \in Seq([decision : Var, trail : Nat])
        /\ queue' \in [first : Var \cup {0}, last : Var \cup {0}, unassigned : Var \cup {0},
                       bumped : Int]
        /\ TrailOrdered' /\ QueueOrdered' /\ UnassignedBound'
    BY <1>0, <1>1, <1>3, <2>1, <2>2, BacktrackKept
  <2>4. TypeOK'
    BY <1>0, <2>3 DEF TypeOK, links
  <2> QED BY <1>0, <2>3, <2>4 DEF QueueKept, SearchFinds, BumpsAssigned
<1>4. CASE k >= Level
  <2>1. queue' = q /\ trail' = trail /\ control' = control
    BY <1>1, <1>2, <1>4 DEF search
  <2>2. Enqueued' = Enqueued /\ Assigned' = Assigned /\ AboveRoot' = AboveRoot
    BY <1>0, <2>1 DEF Enqueued, Assigned, AboveRoot
  <2>3. TypeOK' /\ TrailOrdered'
    BY <1>0, <1>1, <2>1, <2>2, SMTT(60) DEF TypeOK, TrailOrdered, Bounds, links
  <2>4. max_var # 0
    BY <1>0, Variables DEF Found
  <2>5. QueueOrdered' /\ UnassignedBound'
    BY <1>0, <1>1, <2>1, <2>2, <2>4 DEF QueueOrdered, UnassignedBound, Bounds, links
  <2> QED BY <1>0, <2>3, <2>5 DEF QueueKept, SearchFinds, BumpsAssigned
<1> QED BY <1>1, <1>3, <1>4

-----------------------------------------------------------------------------
LEMMA AnalyzeKept ==
  ASSUME QueueKept, NEW S \in SUBSET Var, Analyze(S)
  PROVE  QueueKept'
<1>0. /\ TypeOK /\ TrailOrdered /\ QueueOrdered /\ UnassignedBound
      /\ S # {} /\ S \subseteq AboveRoot /\ pc' = "bump" /\ analyzed' = S
      /\ UNCHANGED <<reverse, max_var, links, queue, btab, bumped, search, res>>
  BY DEF QueueKept, Analyze
<1>1. /\ Enqueued' = Enqueued /\ Assigned' = Assigned /\ AboveRoot' = AboveRoot
      /\ trail' = trail /\ control' = control
  BY <1>0 DEF Enqueued, Assigned, AboveRoot, search
<1>2. control # <<>>
  BY <1>0 DEF AboveRoot
<1>3. TypeOK'
  BY <1>0, <1>1 DEF TypeOK, links
<1>4. TrailOrdered' /\ QueueOrdered' /\ UnassignedBound'
  BY <1>0, <1>1 DEF TrailOrdered, QueueOrdered, UnassignedBound, links
<1> QED BY <1>0, <1>1, <1>2, <1>3, <1>4 DEF QueueKept, SearchFinds, BumpsAssigned

LEMMA BackJumpKept ==
  ASSUME QueueKept, NEW k \in 0 .. Level, BackJump(k)
  PROVE  QueueKept'
<1>0. /\ TypeOK /\ TrailOrdered /\ QueueOrdered /\ UnassignedBound /\ BumpsAssigned
      /\ pc = "bump" /\ k < Level /\ BacktrackFrom(queue, k) /\ pc' = "search"
      /\ UNCHANGED <<reverse, max_var, links, btab, bumped, res, analyzed>>
  BY DEF QueueKept, BackJump
<1>1. max_var > 0
  <2>1. control # <<>> /\ control[1].trail < Len(trail) /\ control[1].trail \in Nat
    BY <1>0, FirstDecision DEF BumpsAssigned, TrailOrdered
  <2>2. 1 \in DOMAIN trail
    BY <1>0, <2>1, SMTT(60) DEF TypeOK
  <2>3. trail[1] \in Enqueued
    BY <1>0, <2>2 DEF TrailOrdered, Assigned
  <2> QED BY <1>0, <2>3, Variables
<1>2. Bounds(queue) /\ UNCHANGED <<reverse, max_var, links, btab, bumped>>
  BY <1>0, <1>1, QueueBounds
<1>3. /\ trail' \in Seq(Var) /\ control' \in Seq([decision : Var, trail : Nat])
      /\ queue' \in [first : Var \cup {0}, last : Var \cup {0}, unassigned : Var \cup {0},
                     bumped : Int]
      /\ TrailOrdered' /\ QueueOrdered' /\ UnassignedBound'
  BY <1>0, <1>2, BacktrackKept
<1>4. TypeOK'
  BY <1>0, <1>3 DEF TypeOK, links
<1> QED BY <1>0, <1>3, <1>4 DEF QueueKept, SearchFinds, BumpsAssigned

\* A bumped variable is taken out of the list and put at its end; it is
\* assigned, and what the pointer promises is about unassigned variables.
LEMMA MoveToFrontKept ==
  ASSUME TypeOK, TrailOrdered, QueueOrdered, UnassignedBound, NEW v \in AboveRoot,
         next[v] # 0, MoveToFront(v), UNCHANGED <<reverse, max_var, search, pc, res>>,
         analyzed' \subseteq Var
  PROVE  TypeOK' /\ TrailOrdered' /\ QueueOrdered' /\ UnassignedBound'
<1>1. /\ v \in Assigned /\ v \in Enqueued /\ Enqueued \subseteq Var /\ 0 \notin Enqueued
      /\ max_var # 0 /\ max_var > 0 /\ bumped \in Nat
      /\ \A w \in Enqueued : btab[w] \in Int /\ btab[w] <= bumped
      /\ {queue.first, queue.last, queue.unassigned} \subseteq Enqueued
  <2>1. v \in Assigned /\ v \in Enqueued
    BY AboveRootAssigned DEF TrailOrdered
  <2>2. max_var # 0 /\ max_var > 0 /\ Enqueued \subseteq Var /\ 0 \notin Enqueued
    BY <2>1, Variables
  <2> QED BY <2>1, <2>2 DEF TypeOK, QueueOrdered
<1>2. /\ Enqueued' = Enqueued /\ Assigned' = Assigned /\ AboveRoot' = AboveRoot
      /\ trail' = trail /\ control' = control /\ bumped' = bumped + 1 /\ max_var' = max_var
  BY DEF Enqueued, Assigned, AboveRoot, search, MoveToFront
<1>3. Linked(Enqueued, queue.first, queue.last, prev, next, btab)
  BY DEF QueueOrdered
<1>4. v # queue.last /\ next[v] \in Enqueued /\ (prev[v] # 0 => prev[v] \in Enqueued) /\ next[v] # v
  BY <1>1, <1>3 DEF Linked
<1> DEFINE prv == Dequeue(v).prv
           nxt == Dequeue(v).nxt
           S == Enqueued \ {v}
           first == IF prev[v] = 0 THEN next[v] ELSE queue.first
<1>5. /\ prv \in [Var -> Var \cup {0}] /\ nxt \in [Var -> Var \cup {0}]
      /\ \A w \in Enqueued : /\ prv[w] = IF w = next[v] THEN prev[v] ELSE prev[w]
                             /\ nxt[w] = IF w = prev[v] THEN next[v] ELSE next[w]
  BY <1>1, <1>4 DEF Dequeue, TypeOK
<1>6. /\ next' = [[nxt EXCEPT ![queue.last] = v] EXCEPT ![v] = 0]
      /\ prev' = [prv EXCEPT ![v] = queue.last]
      /\ queue' = [queue EXCEPT !.first = first, !.last = v]
      /\ btab' = [btab EXCEPT ![v] = bumped + 1]
  BY DEF MoveToFront, TypeOK
<1> HIDE DEF prv, nxt
<1>7. Linked(S, first, queue.last, prv, nxt, btab)
  <2>1. queue.first \in Enqueued /\ queue.last \in Enqueued /\ \A w \in Enqueued : btab[w] \in Int
    BY <1>1
  <2>2. 0 \notin Enqueued /\ v \in Enqueued /\ v # queue.last
    BY <1>1, <1>4
  <2>3. \A w \in Enqueued : /\ prv[w] = IF w = next[v] THEN prev[v] ELSE prev[w]
                            /\ nxt[w] = IF w = prev[v] THEN next[v] ELSE next[w]
    BY <1>5
  <2>4. (prev[v] = 0 => first = next[v]) /\ (prev[v] # 0 => first = queue.first)
    OBVIOUS
  <2> HIDE DEF first
  <2>5. Linked(Enqueued \ {v}, first, queue.last, prv, nxt, btab)
    BY <1>3, <2>1, <2>2, <2>3, <2>4, LinkedRemove
  <2> QED BY <2>5
<1>8. first \in S
  BY <1>1, <1>3, <1>4 DEF Linked
<1>9. /\ next'[v] = 0 /\ prev'[v] = queue.last /\ btab'[v] = bumped + 1
      /\ \A w \in S : /\ next'[w] = IF w = queue.last THEN v ELSE nxt[w]
                      /\ prev'[w] = prv[w] /\ btab'[w] = btab[w]
  BY <1>1, <1>5, <1>6 DEF TypeOK
<1>10. Linked(Enqueued, first, v, prev', next', btab')
  <2>1. queue.last \in S /\ 0 \notin S /\ v \notin S /\ v # 0
    BY <1>1, <1>4
  <2>2. btab'[v] \in Int /\ \A w \in S : btab[w] \in Int /\ btab[w] < btab'[v]
    BY <1>1, <1>9
  <2>3. \A w \in S : /\ next'[w] = IF w = queue.last THEN v ELSE nxt[w]
                     /\ prev'[w] = prv[w] /\ btab'[w] = btab[w] /\ btab[w] < btab'[v]
    BY <1>9, <2>2
  <2> HIDE DEF S, first
  <2>4. Linked(S \cup {v}, first, v, prev', next', btab')
    BY <1>7, <1>8, <1>9, <2>1, <2>2, <2>3, LinkedAppend
  <2> QED BY <1>1, <2>4 DEF S
<1>11. /\ queue' \in [first : Var \cup {0}, last : Var \cup {0}, unassigned : Var \cup {0}, bumped : Int]
       /\ queue'.first = first /\ queue'.last = v /\ queue'.unassigned = queue.unassigned
       /\ queue'.bumped = queue.bumped
  BY <1>1, <1>6, <1>8 DEF TypeOK
<1>12. TypeOK'
  <2>1. v \in Var /\ queue.last \in Var
    BY <1>1
  <2>2. next' \in [Var -> Var \cup {0}]
    BY <1>5, <1>6, <2>1
  <2>3. prev' \in [Var -> Var \cup {0}]
    BY <1>5, <1>6, <2>1
  <2>4. btab' \in [Var -> Int] /\ bumped' \in Nat
    BY <1>1, <1>2, <1>6, SMTT(60) DEF TypeOK
  <2> QED BY <1>1, <1>2, <1>11, <2>2, <2>3, <2>4 DEF TypeOK
<1>13. TrailOrdered'
  BY <1>2 DEF TrailOrdered
<1>14. QueueOrdered'
  <2>1. \A w \in Enqueued' : btab'[w] <= bumped'
    BY <1>1, <1>2, <1>9
  <2>2. {queue'.first, queue'.last, queue'.unassigned} \subseteq Enqueued'
    BY <1>1, <1>2, <1>8, <1>11
  <2> QED BY <1>1, <1>2, <1>10, <1>11, <2>1, <2>2 DEF QueueOrdered
<1>15. UnassignedBound'
  <2>1. /\ queue.bumped \in Int /\ queue.bumped <= btab[queue.unassigned] /\ queue.bumped <= bumped
        /\ queue.unassigned \notin AboveRoot => queue.bumped = btab[queue.unassigned]
        /\ \A w \in Enqueued \ Assigned : btab[w] <= queue.bumped
    BY <1>1 DEF UnassignedBound, TypeOK
  <2>2. queue.bumped <= btab'[queue.unassigned]
    BY <1>1, <1>9, <2>1
  <2>3. queue.unassigned \notin AboveRoot => btab'[queue.unassigned] = btab[queue.unassigned]
    BY <1>1, <1>9
  <2>4. \A w \in Enqueued \ Assigned : btab'[w] <= queue.bumped
    BY <1>1, <1>9, <2>1
  <2> QED BY <1>1, <1>2, <1>11, <2>1, <2>2, <2>3, <2>4 DEF UnassignedBound
<1> QED BY <1>12, <1>13, <1>14, <1>15

LEMMA BumpQueueKept ==
  ASSUME QueueKept, NEW v \in Var, BumpQueue(v)
  PROVE  QueueKept'
<1>0. /\ TypeOK /\ TrailOrdered /\ QueueOrdered /\ UnassignedBound
      /\ pc = "bump" /\ v \in analyzed /\ analyzed' = analyzed \ {v}
      /\ control # <<>> /\ analyzed \subseteq AboveRoot
      /\ UNCHANGED <<reverse, max_var, search, pc, res>>
  BY DEF QueueKept, BumpQueue, NextToBump, BumpsAssigned
<1>1. /\ Enqueued' = Enqueued /\ Assigned' = Assigned /\ AboveRoot' = AboveRoot
      /\ trail' = trail /\ control' = control
  BY <1>0 DEF Enqueued, Assigned, AboveRoot, search
<1>2. BumpsAssigned' /\ SearchFinds'
  BY <1>0, <1>1 DEF BumpsAssigned, SearchFinds
<1>3. CASE next[v] = 0
  <2>1. UNCHANGED <<links, queue, btab, bumped>>
    BY <1>3 DEF BumpQueue
  <2>2. TypeOK'
    BY <1>0, <1>1, <2>1 DEF TypeOK, links
  <2>3. TrailOrdered' /\ QueueOrdered' /\ UnassignedBound'
    BY <1>0, <1>1, <2>1 DEF TrailOrdered, QueueOrdered, UnassignedBound, links
  <2> QED BY <1>2, <2>2, <2>3 DEF QueueKept
<1>4. CASE next[v] # 0
  <2>1. MoveToFront(v)
    BY <1>4 DEF BumpQueue
  <2>2. v \in AboveRoot /\ analyzed' \subseteq Var
    BY <1>0 DEF TypeOK
  <2>3. TypeOK' /\ TrailOrdered' /\ QueueOrdered' /\ UnassignedBound'
    BY <1>0, <1>4, <2>1, <2>2, MoveToFrontKept
  <2> QED BY <1>2, <2>3 DEF QueueKept
<1> QED BY <1>3, <1>4

-----------------------------------------------------------------------------
\* Ranks number the variables: Ranked is the inverse of rank.
LEMMA RankedInverse ==
  ASSUME TypeOK, NEW rank \in [Enqueued -> 0 .. max_var - 1],
         \A v, w \in Enqueued : v # w => rank[v] # rank[w]
  PROVE  /\ \A n \in 0 .. max_var - 1 : Ranked(rank, n) \in Enqueued /\ rank[Ranked(rank, n)] = n
         /\ \A n \in Int \ (0 .. max_var - 1) : Ranked(rank, n) = 0
         /\ \A v \in Enqueued : Ranked(rank, rank[v]) = v
<1>1. max_var \in Nat /\ Enqueued = 1 .. max_var
  BY Variables DEF Enqueued
<1>2. ASSUME NEW n \in 0 .. max_var - 1
      PROVE  Ranked(rank, n) \in Enqueued /\ rank[Ranked(rank, n)] = n
  <2>1. \E v \in Enqueued : rank[v] = n
    BY <1>1, EveryRank, SMTT(60)
  <2> QED BY <2>1 DEF Ranked
<1>3. \A n \in Int \ (0 .. max_var - 1) : Ranked(rank, n) = 0
  BY DEF Ranked
<1>4. ASSUME NEW v \in Enqueued PROVE Ranked(rank, rank[v]) = v
  <2>1. rank[v] \in 0 .. max_var - 1
    OBVIOUS
  <2> QED BY <1>2, <2>1
<1> QED BY <1>2, <1>3, <1>4

LEMMA ShuffleQueueKept ==
  ASSUME QueueKept, ShuffleQueue
  PROVE  QueueKept'
<1>0. /\ TypeOK /\ TrailOrdered /\ QueueOrdered /\ UnassignedBound
      /\ pc = "search" /\ control = <<>> /\ max_var > 0
      /\ UNCHANGED <<reverse, max_var, bumped, search, pc, res, analyzed>>
  BY DEF QueueKept, ShuffleQueue
<1>1. /\ Enqueued' = Enqueued /\ Assigned' = Assigned /\ AboveRoot' = {}
      /\ trail' = trail /\ control' = control /\ max_var' = max_var /\ max_var \in Nat
      /\ Enqueued \subseteq Var /\ 0 \notin Enqueued /\ queue.bumped \in Int /\ bumped \in Nat
  BY <1>0, Variables DEF Enqueued, Assigned, AboveRoot, search, TypeOK
<1>2. PICK rank \in [Enqueued -> 0 .. max_var - 1] :
        /\ \A v, w \in Enqueued : v # w => rank[v] # rank[w]
        /\ prev' = [v \in Var |-> IF v \in Enqueued THEN Ranked(rank, rank[v] + 1) ELSE 0]
        /\ next' = [v \in Var |-> IF v \in Enqueued THEN Ranked(rank, rank[v] - 1) ELSE 0]
        /\ btab' = Restamp(rank)
        /\ queue' = [queue EXCEPT !.first = Ranked(rank, max_var - 1),
                                  !.last = Ranked(rank, 0), !.unassigned = Ranked(rank, 0)]
  BY DEF ShuffleQueue
<1>3. /\ \A n \in 0 .. max_var - 1 : Ranked(rank, n) \in Enqueued /\ rank[Ranked(rank, n)] = n
      /\ \A n \in Int \ (0 .. max_var - 1) : Ranked(rank, n) = 0
      /\ \A v \in Enqueued : Ranked(rank, rank[v]) = v
  BY <1>0, <1>2, RankedInverse
<1>4. \A n \in Int : Ranked(rank, n) \in Var \cup {0}
  BY <1>1, <1>3
<1>5. \A v \in Enqueued : /\ prev'[v] = Ranked(rank, rank[v] + 1)
                          /\ next'[v] = Ranked(rank, rank[v] - 1)
                          /\ btab'[v] = queue.bumped - rank[v] /\ rank[v] \in 0 .. max_var - 1
  BY <1>1, <1>2 DEF Restamp
<1>6. /\ Ranked(rank, max_var - 1) \in Enqueued /\ Ranked(rank, 0) \in Enqueued
      /\ rank[Ranked(rank, 0)] = 0 /\ rank[Ranked(rank, max_var - 1)] = max_var - 1
  <2>1. 0 \in 0 .. max_var - 1 /\ max_var - 1 \in 0 .. max_var - 1
    BY <1>0, <1>1
  <2> QED BY <1>3, <2>1
<1>7. /\ queue' \in [first : Var \cup {0}, last : Var \cup {0}, unassigned : Var \cup {0}, bumped : Int]
      /\ queue'.first = Ranked(rank, max_var - 1) /\ queue'.last = Ranked(rank, 0)
      /\ queue'.unassigned = Ranked(rank, 0) /\ queue'.bumped = queue.bumped
  BY <1>0, <1>1, <1>2, <1>6 DEF TypeOK
<1>8. TypeOK'
  <2>1. prev' \in [Var -> Var \cup {0}] /\ next' \in [Var -> Var \cup {0}]
    <3>1. \A v \in Enqueued : rank[v] + 1 \in Int /\ rank[v] - 1 \in Int
      BY <1>1
    <3> QED BY <1>2, <1>4, <3>1
  <2>2. btab' \in [Var -> Int]
    <3>1. \A v \in Enqueued : queue.bumped - rank[v] \in Int
      BY <1>1
    <3> QED BY <1>2, <3>1 DEF Restamp
  <2> QED BY <1>0, <1>1, <1>7, <2>1, <2>2 DEF TypeOK
<1>9. TrailOrdered'
  BY <1>0, <1>1 DEF TrailOrdered
<1>10. Linked(Enqueued, Ranked(rank, max_var - 1), Ranked(rank, 0), prev', next', btab')
  <2> SUFFICES ASSUME NEW v \in Enqueued
               PROVE  /\ prev'[v] = 0 <=> Ranked(rank, max_var - 1) = v
                      /\ next'[v] = 0 <=> Ranked(rank, 0) = v
                      /\ prev'[v] # 0 => /\ prev'[v] \in Enqueued /\ next'[prev'[v]] = v
                                         /\ btab'[prev'[v]] < btab'[v]
                      /\ next'[v] # 0 => /\ next'[v] \in Enqueued /\ prev'[next'[v]] = v
                                         /\ btab'[v] < btab'[next'[v]]
                      /\ \A x \in Enqueued \ {v} :
                           \/ prev'[v] # 0 /\ btab'[x] <= btab'[prev'[v]]
                           \/ next'[v] # 0 /\ btab'[next'[v]] <= btab'[x]
    BY DEF Linked
  <2>1. /\ rank[v] \in 0 .. max_var - 1 /\ Ranked(rank, rank[v]) = v
        /\ prev'[v] = Ranked(rank, rank[v] + 1) /\ next'[v] = Ranked(rank, rank[v] - 1)
    BY <1>3, <1>5
  <2>2. CASE rank[v] + 1 \in 0 .. max_var - 1
    <3>1. /\ prev'[v] \in Enqueued /\ prev'[v] # 0 /\ rank[prev'[v]] = rank[v] + 1
          /\ Ranked(rank, max_var - 1) # v
      BY <1>1, <1>3, <1>6, <2>1, <2>2
    <3>2. next'[prev'[v]] = v /\ btab'[prev'[v]] = queue.bumped - (rank[v] + 1)
      BY <1>1, <1>5, <2>1, <3>1
    <3>3. \A x \in Enqueued : rank[x] >= rank[v] + 1 => btab'[x] <= btab'[prev'[v]]
      BY <1>1, <1>5, <2>1, <3>2
    <3>4. CASE rank[v] - 1 \in 0 .. max_var - 1
      <4>1. /\ next'[v] \in Enqueued /\ next'[v] # 0 /\ rank[next'[v]] = rank[v] - 1
            /\ Ranked(rank, 0) # v
        BY <1>1, <1>3, <1>6, <2>1, <3>4
      <4>2. prev'[next'[v]] = v /\ btab'[next'[v]] = queue.bumped - (rank[v] - 1)
        BY <1>1, <1>5, <2>1, <4>1
      <4>3. \A x \in Enqueued : rank[x] <= rank[v] - 1 => btab'[next'[v]] <= btab'[x]
        BY <1>1, <1>5, <2>1, <4>2
      <4>4. \A x \in Enqueued \ {v} : rank[x] >= rank[v] + 1 \/ rank[x] <= rank[v] - 1
        BY <1>1, <1>2, <1>5, <2>1
      <4>5. btab'[v] = queue.bumped - rank[v] /\ rank[v] \in Int
        BY <1>5, <2>1
      <4> QED BY <1>1, <3>1, <3>2, <3>3, <4>1, <4>2, <4>3, <4>4, <4>5
    <3>5. CASE rank[v] = 0
      <4>1. next'[v] = 0 /\ Ranked(rank, 0) = v
        BY <1>3, <2>1, <3>5
      <4>2. \A x \in Enqueued \ {v} : rank[x] >= rank[v] + 1
        BY <1>1, <1>2, <1>5, <2>1, <3>5
      <4>3. btab'[v] = queue.bumped - rank[v] /\ rank[v] \in Int
        BY <1>5, <2>1
      <4> QED BY <1>1, <3>1, <3>2, <3>3, <4>1, <4>2, <4>3
    <3> QED BY <1>1, <2>1, <3>4, <3>5
  <2>3. CASE rank[v] = max_var - 1
    <3>1. prev'[v] = 0 /\ Ranked(rank, max_var - 1) = v
      BY <1>1, <1>3, <2>1, <2>3
    <3>2. CASE rank[v] - 1 \in 0 .. max_var - 1
      <4>1. /\ next'[v] \in Enqueued /\ next'[v] # 0 /\ rank[next'[v]] = rank[v] - 1
            /\ Ranked(rank, 0) # v
        BY <1>1, <1>3, <1>6, <2>1, <3>2
      <4>2. prev'[next'[v]] = v /\ btab'[next'[v]] = queue.bumped - (rank[v] - 1)
        BY <1>1, <1>5, <2>1, <4>1
      <4>3. \A x \in Enqueued : rank[x] <= rank[v] - 1 => btab'[next'[v]] <= btab'[x]
        BY <1>1, <1>5, <2>1, <4>2
      <4>4. \A x \in Enqueued \ {v} : rank[x] <= rank[v] - 1
        BY <1>1, <1>2, <1>5, <2>1, <2>3
      <4>5. btab'[v] = queue.bumped - rank[v] /\ rank[v] \in Int
        BY <1>5, <2>1
      <4> QED BY <1>1, <3>1, <4>1, <4>2, <4>3, <4>4, <4>5
    <3>3. CASE rank[v] = 0
      <4>1. next'[v] = 0 /\ Ranked(rank, 0) = v
        BY <1>3, <2>1, <3>3
      <4>2. Enqueued \ {v} = {}
        BY <1>1, <1>2, <1>5, <2>1, <2>3, <3>3
      <4> QED BY <3>1, <4>1, <4>2
    <3> QED BY <1>1, <2>1, <3>2, <3>3
  <2> QED BY <1>1, <2>1, <2>2, <2>3
<1>11. QueueOrdered'
  <2>1. queue.bumped <= bumped
    BY <1>0 DEF UnassignedBound
  <2>2. \A v \in Enqueued' : btab'[v] <= bumped'
    BY <1>0, <1>1, <1>5, <2>1
  <2> QED BY <1>0, <1>1, <1>6, <1>7, <1>10, <2>2 DEF QueueOrdered
<1>12. UnassignedBound'
  <2>1. queue'.bumped = btab'[queue'.unassigned] /\ queue'.bumped <= bumped' /\ queue'.bumped \in Int
    BY <1>0, <1>1, <1>5, <1>6, <1>7, SMTT(60) DEF UnassignedBound
  <2>2. \A v \in Enqueued : btab'[v] <= queue'.bumped
    BY <1>1, <1>5, <1>7
  <2> QED BY <1>1, <2>1, <2>2 DEF UnassignedBound
<1> QED BY <1>0, <1>8, <1>9, <1>11, <1>12 DEF QueueKept, SearchFinds, BumpsAssigned

-----------------------------------------------------------------------------
\* The queue stays an ordered list, its pointer bounds the unassigned variables,
\* and the search for a decision finds one (queue.hpp, decide.cpp).
THEOREM QueueIsKept == Spec => []QueueKept
<1>1. Init => QueueKept
  BY InitQueue
<1>2. QueueKept /\ [Next]_vars => QueueKept'
  <2> SUFFICES ASSUME QueueKept, [Next]_vars PROVE QueueKept'
    OBVIOUS
  <2>1. CASE InitEnqueue
    <3>1. EnqueueFront(max_var + 1) \/ EnqueueBack(max_var + 1)
      BY <2>1 DEF InitEnqueue
    <3>2. PICK v : v = max_var + 1
      OBVIOUS
    <3>3. EnqueueFront(v) \/ EnqueueBack(v)
      BY <3>1, <3>2
    <3> QED BY <2>1, <3>2, <3>3, EnqueueFrontKept, EnqueueBackKept
  <2>2. CASE SearchPrevious
    BY <2>2, SearchPreviousKept
  <2>3. CASE Decide
    BY <2>3, DecideKept
  <2>4. CASE Restart
    BY <2>4, RestartKept
  <2>5. CASE ShuffleQueue
    BY <2>5, ShuffleQueueKept
  <2>6. CASE NextDecision("decide") \/ NextDecision("restart")
    BY <2>6, NextDecisionKept
  <2>7. ASSUME NEW v \in Var, Propagate(v) PROVE QueueKept'
    BY <2>7, PropagateKept
  <2>8. ASSUME NEW v \in Var, BumpQueue(v) PROVE QueueKept'
    BY <2>8, BumpQueueKept
  <2>9. ASSUME NEW S \in SUBSET Var, Analyze(S) PROVE QueueKept'
    BY <2>9, AnalyzeKept
  <2>10. ASSUME NEW k \in 0 .. Level, BackJump(k) PROVE QueueKept'
    BY <2>10, BackJumpKept
  <2>11. CASE UNCHANGED vars
    <3>1. UNCHANGED <<reverse, max_var, prev, next, queue, btab, bumped, trail, control, pc, res,
                      analyzed>>
      BY <2>11 DEF vars, links, search
    <3>2. UNCHANGED <<Enqueued, Assigned, AboveRoot>>
      BY <3>1 DEF Enqueued, Assigned, AboveRoot
    <3>3. TypeOK'
      BY <3>1 DEF QueueKept, TypeOK
    <3>4. TrailOrdered'
      BY <3>1, <3>2 DEF QueueKept, TrailOrdered
    <3>5. QueueOrdered'
      BY <3>1, <3>2 DEF QueueKept, QueueOrdered
    <3>6. UnassignedBound'
      BY <3>1, <3>2 DEF QueueKept, UnassignedBound
    <3>7. SearchFinds' /\ BumpsAssigned'
      BY <3>1, <3>2 DEF QueueKept, SearchFinds, BumpsAssigned
    <3> QED BY <3>3, <3>4, <3>5, <3>6, <3>7 DEF QueueKept
  <2> QED
    BY <2>1, <2>2, <2>3, <2>4, <2>5, <2>6, <2>7, <2>8, <2>9, <2>10, <2>11 DEF Next
<1> QED BY <1>1, <1>2, PTL DEF Spec

\* A restart keeps no decision an unassigned variable should replace (restart.cpp).
THEOREM RestartsReuse == Spec => RestartsReuseBest
<1>1. QueueKept /\ [Next]_vars => [ReusedBest]_vars
  <2> SUFFICES ASSUME QueueKept, Next, pc = "restart", pc' = "search",
                      NEW n \in DOMAIN control', NEW v \in Enqueued \ Assigned
               PROVE  btab[v] <= btab[control[n].decision]
    BY DEF ReusedBest
  <2>1. Restart
    BY DEF Next, InitEnqueue, SearchPrevious, Decide, ShuffleQueue, NextDecision, Propagate,
      BumpQueue, Analyze, BackJump
  <2>2. PICK k \in 0 .. Level :
          /\ Reusable(k, btab[res])
          /\ IF k < Level THEN BacktrackFrom(WithUnassigned(res), k)
             ELSE queue' = WithUnassigned(res) /\ UNCHANGED search
    BY <2>1 DEF Restart
  <2>3. control \in Seq([decision : Var, trail : Nat]) /\ Level = Len(control) /\ TypeOK
    BY DEF QueueKept, TypeOK, Level
  <2>4. n \in 1 .. k
    <3>1. CASE k < Level
      <4>1. control' = SubSeq(control, 1, k)
        BY <2>2, <3>1 DEF BacktrackFrom
      <4> QED BY <2>3, <3>1, <4>1
    <3>2. CASE ~(k < Level)
      <4>1. control' = control
        BY <2>2, <3>2 DEF search
      <4> QED BY <2>3, <3>2, <4>1
    <3> QED BY <3>1, <3>2
  <2>5. btab[control[n].decision] >= btab[res]
    BY <2>2, <2>4 DEF Reusable
  <2>6. btab[v] <= btab[res] /\ res \in Enqueued
    BY DEF QueueKept, SearchFinds
  <2>7. n \in DOMAIN control
    BY <2>3, <2>4
  <2>8. btab[v] \in Int /\ btab[res] \in Int /\ btab[control[n].decision] \in Int
    BY <2>3, <2>6, <2>7, Variables, ControlEntry DEF TypeOK
  <2> QED BY <2>5, <2>6, <2>8
<1> QED BY <1>1, QueueIsKept, PTL DEF Spec, RestartsReuseBest

-----------------------------------------------------------------------------
\* The stamps order the variables.
LEMMA LinkedDistinct ==
  ASSUME NEW S, NEW first, NEW last, NEW prv, NEW nxt, NEW stamp,
         Linked(S, first, last, prv, nxt, stamp), \A v \in S : stamp[v] \in Int,
         NEW v \in S, NEW w \in S, v # w
  PROVE  stamp[v] < stamp[w] \/ stamp[w] < stamp[v]
<1>1. /\ prv[v] # 0 => prv[v] \in S /\ stamp[prv[v]] < stamp[v]
      /\ nxt[v] # 0 => nxt[v] \in S /\ stamp[v] < stamp[nxt[v]]
      /\ \/ prv[v] # 0 /\ stamp[w] <= stamp[prv[v]]
         \/ nxt[v] # 0 /\ stamp[nxt[v]] <= stamp[w]
  BY DEF Linked
<1> QED BY <1>1

LEMMA StampsDistinct ==
  ASSUME NEW S, NEW first, NEW last, NEW prv, NEW nxt, NEW stamp, 0 \notin S,
         Linked(S, first, last, prv, nxt, stamp), \A v \in S : stamp[v] \in Int
  PROVE  /\ \A v, w \in S : v # w => stamp[v] < stamp[w] \/ stamp[w] < stamp[v]
         /\ first \in S => \A v \in S \ {first} : stamp[first] < stamp[v]
         /\ last \in S => \A v \in S \ {last} : stamp[v] < stamp[last]
<1>1. \A v, w \in S : v # w => stamp[v] < stamp[w] \/ stamp[w] < stamp[v]
  BY LinkedDistinct
<1>2. /\ first \in S => \A v \in S : stamp[first] <= stamp[v]
      /\ last \in S => \A v \in S : stamp[v] <= stamp[last]
  BY LinkedEnds
<1> QED BY <1>1, <1>2

\* A function on an initial segment of the positive numbers is a sequence.
LEMMA FunctionIsSeq ==
  ASSUME NEW T, NEW n \in Nat, NEW f, DOMAIN f = 1 .. n, f = [i \in 1 .. n |-> f[i]],
         \A i \in 1 .. n : f[i] \in T
  PROVE  f \in Seq(T) /\ Len(f) = n
<1>1. f \in [1 .. n -> T]
  OBVIOUS
<1> QED BY <1>1

LEMMA DecisionsSeq ==
  ASSUME TypeOK
  PROVE  Decisions \in Seq(Var) /\ Len(Decisions) = Len(control)
<1>1. Len(control) \in Nat /\ DOMAIN control = 1 .. Len(control)
  BY DEF TypeOK
<1>2. \A n \in DOMAIN control : control[n].decision \in Var
  BY ControlEntry
<1> QED BY <1>1, <1>2, FunctionIsSeq DEF Decisions

LEMMA StampsNow ==
  ASSUME TypeOK, QueueOrdered
  PROVE  /\ \A v \in Enqueued : btab[v] \in Int
         /\ \A v, w \in Enqueued : v # w => btab[v] < btab[w] \/ btab[w] < btab[v]
<1>1. /\ \A v \in Enqueued : btab[v] \in Int
      /\ Linked(Enqueued, queue.first, queue.last, prev, next, btab) /\ 0 \notin Enqueued
  BY Variables DEF TypeOK, QueueOrdered
<1> QED BY <1>1, StampsDistinct

LEMMA StampsNext ==
  ASSUME TypeOK', QueueOrdered'
  PROVE  /\ \A v \in Enqueued' : btab'[v] \in Int
         /\ \A v, w \in Enqueued' : v # w => btab'[v] < btab'[w] \/ btab'[w] < btab'[v]
         /\ queue'.first \in Enqueued' =>
              \A v \in Enqueued' \ {queue'.first} : btab'[queue'.first] < btab'[v]
         /\ queue'.last \in Enqueued' =>
              \A v \in Enqueued' \ {queue'.last} : btab'[v] < btab'[queue'.last]
<1>1. /\ \A v \in Enqueued' : btab'[v] \in Int
      /\ Linked(Enqueued', queue'.first, queue'.last, prev', next', btab') /\ 0 \notin Enqueued'
  <2>1. max_var' \in 0 .. MaxVar /\ btab' \in [Var -> Int] /\ MaxVar \in Nat
    BY VmtfAssumption DEF TypeOK
  <2>2. Enqueued' \subseteq Var /\ 0 \notin Enqueued'
    BY <2>1 DEF Enqueued, Var
  <2> QED BY <2>1, <2>2 DEF QueueOrdered
<1> QED BY <1>1, StampsDistinct

LEMMA SameDecisions ==
  ASSUME control' = control
  PROVE  Decisions' = Decisions
BY DEF Decisions

LEMMA EnqueueExtends ==
  ASSUME QueueKept, QueueKept', InitEnqueue
  PROVE  Order!Extend(max_var + 1) /\ max_var + 1 \in Enqueued'
<1>1. PICK v : v = max_var + 1
  OBVIOUS
<1>2. /\ TypeOK /\ TypeOK' /\ QueueOrdered' /\ max_var' = v /\ max_var \in Nat
      /\ trail' = trail /\ control' = control
      /\ v \in Var /\ v \notin Enqueued /\ Enqueued' = Enqueued \cup {v} /\ Enqueued \subseteq Var
  <2>1. /\ TypeOK /\ TypeOK' /\ QueueOrdered' /\ trail' = trail /\ control' = control
        /\ max_var' = v /\ max_var < MaxVar
    BY <1>1 DEF QueueKept, InitEnqueue, search
  <2>2. max_var \in Nat /\ MaxVar \in Nat
    BY <2>1, VmtfAssumption DEF TypeOK
  <2>3. v \in Var /\ v \notin Enqueued /\ Enqueued' = Enqueued \cup {v} /\ Enqueued \subseteq Var
    BY <1>1, <2>1, <2>2 DEF Enqueued, Var
  <2> QED BY <2>1, <2>2, <2>3
<1>3. /\ \A w \in Enqueued : btab'[w] = btab[w] /\ btab'[w] \in Int
      /\ btab'[v] \in Int /\ (queue'.first = v \/ queue'.last = v)
  <2>1. EnqueueFront(v) \/ EnqueueBack(v)
    BY <1>1 DEF InitEnqueue
  <2> QED BY <1>2, <2>1 DEF TypeOK, EnqueueFront, EnqueueBack
<1>4. CASE queue'.first = v
  <2>1. \A w \in Enqueued : btab'[v] < btab'[w]
    BY <1>2, <1>4, StampsNext
  <2>2. Before' = Before \cup ({v} \X Enqueued)
    BY <1>2, <1>3, <2>1 DEF Before
  <2> QED BY <1>1, <1>2, <2>2, SameDecisions DEF Order!Extend
<1>5. CASE queue'.last = v
  <2>1. \A w \in Enqueued : btab'[w] < btab'[v]
    BY <1>2, <1>5, StampsNext
  <2>2. Before' = Before \cup (Enqueued \X {v})
    BY <1>2, <1>3, <2>1 DEF Before
  <2> QED BY <1>1, <1>2, <2>2, SameDecisions DEF Order!Extend
<1> QED BY <1>3, <1>4, <1>5

LEMMA DecideLatest ==
  ASSUME QueueKept, Decide
  PROVE  Order!Decide(res) /\ res \in Enqueued'
<1>1. /\ TypeOK /\ QueueOrdered /\ res \in Enqueued \ Assigned
      /\ trail' = Append(trail, res) /\ UNCHANGED <<max_var, btab>>
      /\ control' = Append(control, [decision |-> res, trail |-> Len(trail)])
      /\ \A v \in Enqueued \ Assigned : btab[v] <= btab[res]
  BY DEF QueueKept, Decide, Found, SearchFinds
<1>2. Order!Free = Enqueued \ Assigned
  BY DEF Order!Free, Assigned
<1>3. \A w \in Order!Free \ {res} : <<w, res>> \in Before
  BY <1>1, <1>2, StampsNow DEF Before
<1>4. Decisions' = Append(Decisions, res)
  <2>1. control \in Seq([decision : Var, trail : Nat])
    BY <1>1 DEF TypeOK
  <2> DEFINE d == [decision |-> res, trail |-> Len(trail)]
             S == [decision : Var, trail : Nat]
  <2>2. res \in Var /\ Len(trail) \in Nat
    BY <1>1, Variables DEF TypeOK
  <2>3. d \in S /\ d.decision = res
    BY <2>2
  <2>4. control \in Seq(S) /\ control' = Append(control, d)
    BY <1>1, <2>1
  <2> HIDE DEF d, S
  <2>5. /\ Len(control) \in Nat /\ DOMAIN control' = 1 .. Len(control) + 1
        /\ DOMAIN control = 1 .. Len(control) /\ control'[Len(control) + 1] = d
        /\ \A n \in DOMAIN control : control'[n] = control[n]
    BY <2>3, <2>4
  <2>6. Decisions \in Seq(Var) /\ Len(Decisions) = Len(control)
    BY <1>1, DecisionsSeq
  <2>7. /\ Append(Decisions, res) \in Seq(Var) /\ Len(Append(Decisions, res)) = Len(control) + 1
        /\ Append(Decisions, res)[Len(control) + 1] = res
        /\ \A n \in 1 .. Len(control) : Append(Decisions, res)[n] = Decisions[n]
    BY <2>2, <2>5, <2>6
  <2>8. DOMAIN Decisions' = 1 .. Len(control) + 1 /\ Decisions'[Len(control) + 1] = res
    BY <2>3, <2>5 DEF Decisions
  <2>9. \A n \in DOMAIN control : Decisions'[n] = Decisions[n]
    BY <2>5 DEF Decisions
  <2>10. \A n \in 1 .. Len(control) + 1 : Decisions'[n] = Append(Decisions, res)[n]
    BY <2>5, <2>7, <2>8, <2>9
  <2>11. Decisions' \in Seq(Var) /\ Len(Decisions') = Len(control) + 1
    <3>1. \A n \in 1 .. Len(control) + 1 : Decisions'[n] \in Var
      BY <2>7, <2>10, ElementOfSeq
    <3>2. Decisions' = [n \in 1 .. Len(control) + 1 |-> Decisions'[n]]
      BY <2>8 DEF Decisions
    <3> QED BY <2>5, <2>8, <3>1, <3>2, FunctionIsSeq
  <2> QED BY <2>7, <2>10, <2>11, SeqEqual
<1>5. Enqueued' = Enqueued /\ Before' = Before
  BY <1>1 DEF Enqueued, Before
<1> QED BY <1>1, <1>2, <1>3, <1>4, <1>5 DEF Order!Decide

LEMMA CutIsBacktrack ==
  ASSUME TypeOK, TrailOrdered, NEW k \in 0 .. Level, k < Level, UNCHANGED <<max_var, btab>>,
         trail' = SubSeq(trail, 1, control[k + 1].trail), control' = SubSeq(control, 1, k)
  PROVE  Order!Backtrack(k) /\ k \in 0 .. Len(Decisions)
<1>1. /\ control \in Seq([decision : Var, trail : Nat]) /\ Len(control) \in Nat
      /\ DOMAIN control = 1 .. Len(control) /\ k \in Nat /\ k < Len(control) /\ Len(trail) \in Nat
      /\ DOMAIN trail = 1 .. Len(trail)
  <2>1. /\ control \in Seq([decision : Var, trail : Nat]) /\ Len(control) \in Nat
        /\ DOMAIN control = 1 .. Len(control)
    BY DEF TypeOK
  <2>2. Len(trail) \in Nat /\ DOMAIN trail = 1 .. Len(trail)
    BY DEF TypeOK
  <2> QED BY <2>1, <2>2 DEF Level
<1>2. Decisions \in Seq(Var) /\ Len(Decisions) = Len(control) /\ DOMAIN Decisions = 1 .. Len(control)
  BY <1>1, DecisionsSeq
<1>3. Decisions' = SubSeq(Decisions, 1, k)
  <2> DEFINE S == [decision : Var, trail : Nat]
  <2>1. /\ Len(control') = k /\ DOMAIN control' = 1 .. k
        /\ \A n \in 1 .. k : control'[n] = control[n]
    <3>1. control \in Seq(S) /\ k \in 0 .. Len(control)
      BY <1>1
    <3> HIDE DEF S
    <3> QED BY <1>1, <3>1
  <2>2. \A n \in 1 .. k : Decisions[n] \in Var /\ Decisions[n] = control[n].decision
    BY <1>1, <1>2, ElementOfSeq DEF Decisions
  <2>3. /\ SubSeq(Decisions, 1, k) \in Seq(Var) /\ Len(SubSeq(Decisions, 1, k)) = k
        /\ \A n \in 1 .. k : SubSeq(Decisions, 1, k)[n] = Decisions[n]
    <3>1. \A n \in 1 .. k : Decisions[1 + n - 1] = Decisions[n]
      BY <1>1
    <3> QED BY <1>1, <2>2, <3>1, SubSeqProperties
  <2>4. Decisions' \in Seq(Var) /\ Len(Decisions') = k /\ \A n \in 1 .. k : Decisions'[n] = Decisions[n]
    <3>1. /\ DOMAIN Decisions' = 1 .. k /\ Decisions' = [n \in 1 .. k |-> Decisions'[n]]
          /\ \A n \in 1 .. k : Decisions'[n] = control[n].decision
      BY <2>1 DEF Decisions
    <3> QED BY <1>1, <2>2, <3>1, FunctionIsSeq
  <2> QED BY <2>3, <2>4, SeqEqual
<1>4. \E n \in DOMAIN trail : trail[n] = Decisions[k + 1] /\ trail' = SubSeq(trail, 1, n - 1)
  <2>1. k + 1 \in DOMAIN control /\ control[k + 1].trail \in Nat
    BY <1>1, ControlEntry, SMTT(60)
  <2>2. /\ control[k + 1].trail < Len(trail) /\ trail[control[k + 1].trail + 1] = Decisions[k + 1]
    BY <2>1 DEF TrailOrdered, Decisions
  <2>3. PICK below \in Nat : below = control[k + 1].trail
    BY <2>1
  <2>4. below + 1 \in DOMAIN trail /\ (below + 1) - 1 = below
    BY <1>1, <2>2, <2>3, SMTT(60)
  <2>5. trail[below + 1] = Decisions[k + 1] /\ trail' = SubSeq(trail, 1, below)
    BY <2>2, <2>3
  <2> QED BY <2>4, <2>5
<1>5. Enqueued' = Enqueued /\ Before' = Before
  BY DEF Enqueued, Before
<1>6. k \in 0 .. Len(Decisions) - 1 /\ k \in 0 .. Len(Decisions)
  BY <1>1, <1>2
<1> QED BY <1>3, <1>4, <1>5, <1>6 DEF Order!Backtrack

LEMMA BumpIsBump ==
  ASSUME QueueKept, QueueKept', NEW v \in Var, BumpQueue(v), next[v] # 0
  PROVE  Order!Bump(v) /\ v \in Enqueued'
<1>1. /\ TypeOK /\ TypeOK' /\ QueueOrdered' /\ MoveToFront(v) /\ v \in AboveRoot
      /\ Enqueued \subseteq Var /\ max_var' = max_var /\ trail' = trail /\ control' = control
      /\ v \in Assigned /\ v \in Enqueued
  <2>1. v \in AboveRoot /\ TypeOK /\ TrailOrdered /\ MoveToFront(v) /\ UNCHANGED <<max_var, search>>
    BY DEF QueueKept, BumpsAssigned, BumpQueue, NextToBump
  <2> QED BY <2>1, Variables, AboveRootAssigned DEF QueueKept, TrailOrdered, search
<1>2. Enqueued' = Enqueued
  BY <1>1 DEF Enqueued
<1>3. queue'.last = v /\ \A w \in Enqueued \ {v} : btab'[w] = btab[w]
  BY <1>1 DEF MoveToFront, TypeOK
<1>4. \A w \in Enqueued \ {v} : btab'[w] < btab'[v] /\ ~(btab'[v] < btab'[w])
  BY <1>1, <1>2, <1>3, StampsNext
<1>5. ~(btab'[v] < btab'[v])
  BY <1>1 DEF TypeOK
<1>6. Before' = {p \in Before : p[1] # v /\ p[2] # v} \cup ((Enqueued \ {v}) \X {v})
  <2>1. ASSUME NEW a \in Enqueued, NEW b \in Enqueued
        PROVE  <<a, b>> \in Before' <=>
                 <<a, b>> \in {p \in Before : p[1] # v /\ p[2] # v} \cup ((Enqueued \ {v}) \X {v})
    BY <1>1, <1>2, <1>3, <1>4, <1>5 DEF Before
  <2>2. Before' \subseteq Enqueued \X Enqueued /\ Before \subseteq Enqueued \X Enqueued
    BY <1>2 DEF Before
  <2> QED BY <1>1, <2>1, <2>2
<1>7. v \in Enqueued \ Order!Free
  BY <1>1 DEF Order!Free, Assigned
<1> QED BY <1>1, <1>2, <1>6, <1>7, SameDecisions DEF Order!Bump

LEMMA ShuffleIsShuffle ==
  ASSUME QueueKept, QueueKept', ShuffleQueue
  PROVE  Order!Shuffle
<1>1. /\ TypeOK' /\ QueueOrdered' /\ max_var' = max_var /\ trail' = trail /\ control' = control
      /\ control = <<>> /\ Enqueued' = Enqueued
  BY DEF QueueKept, ShuffleQueue, search, Enqueued
<1>2. /\ \A v \in Enqueued : btab'[v] \in Int
      /\ \A v, w \in Enqueued : v # w => btab'[v] < btab'[w] \/ btab'[w] < btab'[v]
  BY <1>1, StampsNext
<1>3. Before' = {p \in Enqueued \X Enqueued : btab'[p[1]] < btab'[p[2]]}
  BY <1>1 DEF Before
<1>4. Order!Line(Enqueued, Before')
  <2>1. \A v, w \in Enqueued : <<v, w>> \in Before' <=> btab'[v] < btab'[w]
    BY <1>3
  <2>2. Before' \subseteq Enqueued \X Enqueued
    BY <1>3
  <2>3. \A v, w \in Enqueued : v # w => (<<v, w>> \in Before' <=> <<w, v>> \notin Before')
    BY <1>2, <2>1
  <2>4. \A v \in Enqueued : <<v, v>> \notin Before'
    BY <1>2, <2>1
  <2>5. \A u, v, w \in Enqueued : <<u, v>> \in Before' /\ <<v, w>> \in Before' => <<u, w>> \in Before'
    BY <1>2, <2>1
  <2> QED BY <2>2, <2>3, <2>4, <2>5 DEF Order!Line
<1>5. Decisions = <<>>
  BY <1>1 DEF Decisions
<1> QED BY <1>1, <1>4, <1>5, SameDecisions DEF Order!Shuffle

\* The queue implements the line of variables (queue.hpp, decide.cpp).
THEOREM QueueIsLine == Spec => DecidesLatest
<1>1. Init => Order!Init
  <2> SUFFICES ASSUME Init PROVE Order!Init
    OBVIOUS
  <2>1. Enqueued = {} /\ control = <<>> /\ trail = <<>>
    BY DEF Init, Enqueued
  <2>2. Before = {} /\ Decisions = <<>>
    BY <2>1 DEF Before, Decisions
  <2> QED BY <2>1, <2>2 DEF Order!Init
<1>2. QueueKept /\ QueueKept' /\ [Next]_vars => [Order!Next]_(Order!vars)
  <2> SUFFICES ASSUME QueueKept, QueueKept', [Next]_vars PROVE Order!Next \/ UNCHANGED Order!vars
    OBVIOUS
  <2>0. TypeOK /\ TrailOrdered
    BY DEF QueueKept
  <2>1. ASSUME UNCHANGED <<max_var, btab, trail, control>> PROVE UNCHANGED Order!vars
    BY <2>1 DEF Order!vars, Enqueued, Before, Decisions
  <2>2. CASE InitEnqueue
    BY <2>2, EnqueueExtends DEF Order!Next
  <2>3. CASE SearchPrevious \/ NextDecision("decide") \/ NextDecision("restart") \/ UNCHANGED vars
    BY <2>1, <2>3 DEF SearchPrevious, NextDecision, vars, search
  <2>4. CASE Decide
    BY <2>4, DecideLatest DEF Order!Next
  <2>5. CASE Restart
    <3>1. PICK k \in 0 .. Level : IF k < Level THEN BacktrackFrom(WithUnassigned(res), k)
                                               ELSE UNCHANGED search
      BY <2>5 DEF Restart
    <3>2. UNCHANGED <<max_var, btab>>
      BY <2>5 DEF Restart
    <3>3. CASE k < Level
      <4>1. trail' = SubSeq(trail, 1, control[k + 1].trail) /\ control' = SubSeq(control, 1, k)
        BY <3>1, <3>3 DEF BacktrackFrom
      <4> QED BY <2>0, <3>2, <3>3, <4>1, CutIsBacktrack DEF Order!Next
    <3>4. CASE ~(k < Level)
      BY <2>1, <3>1, <3>2, <3>4 DEF search
    <3> QED BY <3>3, <3>4
  <2>6. CASE ShuffleQueue
    BY <2>6, ShuffleIsShuffle DEF Order!Next
  <2>7. ASSUME NEW v \in Var, Propagate(v) PROVE Order!Next
    <3>1. v \in Order!Free /\ v \in Enqueued /\ trail' = Append(trail, v)
          /\ UNCHANGED <<max_var, btab, control>>
      BY <2>7 DEF Propagate, Order!Free, Assigned
    <3>2. Enqueued' = Enqueued /\ Before' = Before /\ Decisions' = Decisions
      BY <3>1 DEF Enqueued, Before, Decisions
    <3> QED BY <3>1, <3>2 DEF Order!Assign, Order!Next
  <2>8. ASSUME NEW v \in Var, BumpQueue(v) PROVE Order!Next \/ UNCHANGED Order!vars
    <3>1. CASE next[v] = 0
      BY <2>1, <2>8, <3>1 DEF BumpQueue, search
    <3>2. CASE next[v] # 0
      BY <2>8, <3>2, BumpIsBump DEF Order!Next
    <3> QED BY <3>1, <3>2
  <2>9. ASSUME NEW S \in SUBSET Var, Analyze(S) PROVE UNCHANGED Order!vars
    BY <2>1, <2>9 DEF Analyze, search
  <2>10. ASSUME NEW k \in 0 .. Level, BackJump(k) PROVE Order!Next
    <3>1. /\ k < Level /\ UNCHANGED <<max_var, btab>>
          /\ trail' = SubSeq(trail, 1, control[k + 1].trail) /\ control' = SubSeq(control, 1, k)
      BY <2>10 DEF BackJump, BacktrackFrom
    <3> QED BY <2>0, <3>1, CutIsBacktrack DEF Order!Next
  <2> QED BY <2>2, <2>3, <2>4, <2>5, <2>6, <2>7, <2>8, <2>9, <2>10 DEF Next
<1> QED BY <1>1, <1>2, QueueIsKept, PTL DEF Spec, DecidesLatest, Order!Spec
=============================================================================
