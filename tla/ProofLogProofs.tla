--------------------------- MODULE ProofLogProofs ---------------------------
(***************************************************************************)
(* What the writer tells the proof, for every formula: a checker has every *)
(* clause and every unit with which the writer can still propagate, unless *)
(* a copy was confused with it (confused).                                 *)
(***************************************************************************)
EXTENDS ProofLog, FiniteSetTheorems, TLAPS

\* What a call reads and changes.
LogState ==
  [id : Nat, clauses : Seq(Clause), units : [Lit -> Nat], proof : SUBSET Line,
   unjustified : SUBSET Nat, unknown : SUBSET Line]

\* The inductive invariant: a confusion that is there has been noted.
LogInv == ClausesInProof /\ (Confusable => confused)

-----------------------------------------------------------------------------
\* A literal is a number, and so is its negation (Lit).
LEMMA NegationIsLit ==
  ASSUME NEW l \in Lit
  PROVE  -l \in Lit /\ -(-l) = l /\ l # -l /\ l \in Int
BY ProofLogAssumption DEF Lit

\* The literals are finitely many, so every clause has a size.
LEMMA ClauseFinite ==
  ASSUME NEW C \in SUBSET Lit
  PROVE  IsFiniteSet(C) /\ Cardinality(C) \in Nat /\ (Cardinality(C) = 0 <=> C = {})
<1>1. IsFiniteSet(-MaxVar .. MaxVar)
  BY ProofLogAssumption, FS_Interval
<1>2. Lit \subseteq -MaxVar .. MaxVar
  BY ProofLogAssumption DEF Lit
<1> QED
  BY <1>1, <1>2, FS_Subset, FS_CardinalityType, FS_EmptySet

\* What is known of the state of a call that reads the variables (TypeOK).
LEMMA NowTyped ==
  ASSUME TypeOK
  PROVE  Now \in LogState
BY DEF TypeOK, Now, LogState

\* What remains of the state after a call (Become).
LEMMA BecomeIs ==
  ASSUME NEW st \in LogState, NEW u \in BOOLEAN, Become(st, u)
  PROVE  /\ clause_id' = st.id /\ clauses' = st.clauses /\ unit_clauses' = st.units
         /\ proof' = st.proof /\ unsat' = u /\ confused' = (confused \/ Confusable')
         /\ unjustified' = st.unjustified /\ unknown' = st.unknown
BY DEF Become

\* A line is deleted or it was unknown; no other line goes (Proof::delete_clause).
LEMMA DeletedIs ==
  ASSUME NEW st \in LogState, NEW id \in Nat, NEW C \in SUBSET Lit
  PROVE  /\ Deleted(st, id, C) \in LogState
         /\ Deleted(st, id, C).id = st.id /\ Deleted(st, id, C).clauses = st.clauses
         /\ Deleted(st, id, C).units = st.units
         /\ \A e \in st.proof : e = Entry(id, C) \/ e \in Deleted(st, id, C).proof
<1>1. Entry(id, C) \in Line
  BY DEF Entry, Line
<1>2. CASE Entry(id, C) \in st.proof
  BY <1>1, <1>2 DEF Deleted, LogState
<1>3. CASE Entry(id, C) \notin st.proof
  BY <1>1, <1>3 DEF Deleted, LogState
<1> QED
  BY <1>2, <1>3

\* A line is added (Proof::add_original_clause).
LEMMA AddedIs ==
  ASSUME NEW st \in LogState, NEW id \in Nat, NEW C \in SUBSET Lit
  PROVE  /\ Added(st, id, C) \in LogState
         /\ Added(st, id, C).id = st.id /\ Added(st, id, C).clauses = st.clauses
         /\ Added(st, id, C).units = st.units
         /\ Added(st, id, C).proof = st.proof \cup {Entry(id, C)}
BY SMTT(60) DEF Added, Entry, LogState, Line

\* The same for a derived line (Proof::add_derived_clause).
LEMMA DerivedIs ==
  ASSUME NEW st \in LogState, NEW id \in Nat, NEW C \in SUBSET Lit, NEW chain
  PROVE  /\ Derived(st, id, C, chain) \in LogState
         /\ Derived(st, id, C, chain).id = st.id /\ Derived(st, id, C, chain).clauses = st.clauses
         /\ Derived(st, id, C, chain).units = st.units
         /\ Derived(st, id, C, chain).proof = st.proof \cup {Entry(id, C)}
<1> DEFINE s == Added(st, id, C)
           new == IF chain = {} THEN s.unjustified \cup {id} ELSE s.unjustified
<1>1. Derived(st, id, C, chain) = [s EXCEPT !.unjustified = new]
  BY DEF Derived
<1>2. /\ s \in LogState /\ s.id = st.id /\ s.clauses = st.clauses /\ s.units = st.units
      /\ s.proof = st.proof \cup {Entry(id, C)}
  BY AddedIs
<1>3. new \in SUBSET Nat
  BY <1>2 DEF LogState
<1> HIDE DEF s, new
<1> QED
  BY <1>1, <1>2, <1>3 DEF LogState

\* The id counter goes up by one (Counted).
LEMMA CountedIs ==
  ASSUME NEW st \in LogState
  PROVE  /\ Counted(st) \in LogState /\ Counted(st).id = st.id + 1
         /\ Counted(st).units = st.units /\ Counted(st).clauses = st.clauses
         /\ Counted(st).proof = st.proof
<1>1. st.id + 1 \in Nat
  BY DEF LogState
<1> QED
  BY <1>1 DEF Counted, LogState

\* A derived line under the next id (learn_unit_clause, otfs_strengthen_clause).
LEMMA NextDerivedIs ==
  ASSUME NEW st \in LogState, NEW C \in SUBSET Lit, NEW chain
  PROVE  /\ Derived(Counted(st), st.id + 1, C, chain) \in LogState
         /\ Derived(Counted(st), st.id + 1, C, chain).id = st.id + 1
         /\ Derived(Counted(st), st.id + 1, C, chain).clauses = st.clauses
         /\ Derived(Counted(st), st.id + 1, C, chain).units = st.units
         /\ Derived(Counted(st), st.id + 1, C, chain).proof = st.proof \cup {Entry(st.id + 1, C)}
<1> DEFINE s == Counted(st)
<1>1. /\ s \in LogState /\ s.id = st.id + 1 /\ s.units = st.units /\ s.clauses = st.clauses
      /\ s.proof = st.proof /\ st.id + 1 \in Nat
  BY CountedIs DEF LogState
<1> HIDE DEF s
<1>2. /\ Derived(s, st.id + 1, C, chain) \in LogState
      /\ Derived(s, st.id + 1, C, chain).id = s.id
      /\ Derived(s, st.id + 1, C, chain).clauses = s.clauses
      /\ Derived(s, st.id + 1, C, chain).units = s.units
      /\ Derived(s, st.id + 1, C, chain).proof = s.proof \cup {Entry(st.id + 1, C)}
  BY <1>1, DerivedIs
<1> QED
  BY <1>1, <1>2 DEF s

\* A clause is stored under the next id (Internal::new_clause).
LEMMA NewClauseIs ==
  ASSUME NEW st \in LogState, NEW C \in SUBSET Lit, NEW red \in BOOLEAN
  PROVE  /\ NewClause(st, C, red) \in LogState
         /\ NewClause(st, C, red).id = st.id + 1 /\ NewClause(st, C, red).units = st.units
         /\ NewClause(st, C, red).clauses =
              Append(st.clauses, [lits |-> C, id |-> st.id + 1, redundant |-> red, garbage |-> FALSE])
         /\ NewClause(st, C, red).proof = st.proof
<1> DEFINE c == [lits |-> C, id |-> st.id + 1, redundant |-> red, garbage |-> FALSE]
<1>1. st.id + 1 \in Nat /\ c \in Clause
  BY DEF LogState, Clause
<1>2. Append(st.clauses, c) \in Seq(Clause)
  BY <1>1 DEF LogState
<1>3. NewClause(st, C, red) = [st EXCEPT !.id = @ + 1, !.clauses = Append(@, c)]
  BY DEF NewClause
<1> HIDE DEF c
<1>4. NewClause(st, C, red) \in LogState
  BY <1>1, <1>2, <1>3 DEF LogState
<1> QED
  BY <1>3, <1>4 DEF LogState, c

\* One clause of the list is replaced (Replaced).
LEMMA ReplacedIs ==
  ASSUME NEW st \in LogState, NEW n \in DOMAIN st.clauses, NEW c \in Clause
  PROVE  /\ Replaced(st, n, c) \in LogState
         /\ Replaced(st, n, c).id = st.id /\ Replaced(st, n, c).units = st.units
         /\ Replaced(st, n, c).clauses = [st.clauses EXCEPT ![n] = c]
         /\ Replaced(st, n, c).proof = st.proof
<1>1. [st.clauses EXCEPT ![n] = c] \in Seq(Clause)
  BY DEF LogState
<1> QED
  BY <1>1 DEF Replaced, LogState

\* A clause is marked; only a line with its id and literals goes, and none if it
\* is binary (Internal::mark_garbage).
LEMMA MarkGarbageIs ==
  ASSUME NEW st \in LogState, NEW n \in DOMAIN st.clauses
  PROVE  /\ MarkGarbage(st, n) \in LogState
         /\ MarkGarbage(st, n).id = st.id /\ MarkGarbage(st, n).units = st.units
         /\ MarkGarbage(st, n).clauses = [st.clauses EXCEPT ![n] = AsGarbage(st.clauses[n])]
         /\ \A e \in st.proof :
              \/ e \in MarkGarbage(st, n).proof
              \/ e = Entry(st.clauses[n].id, st.clauses[n].lits) /\ Cardinality(st.clauses[n].lits) # 2
<1>1. st.clauses[n] \in Clause
  BY DEF LogState
<1> DEFINE s == IF Cardinality(st.clauses[n].lits) = 2 THEN st
                ELSE Deleted(st, st.clauses[n].id, st.clauses[n].lits)
<1>2. /\ s \in LogState /\ s.id = st.id /\ s.units = st.units /\ s.clauses = st.clauses
      /\ \A e \in st.proof :
              \/ e \in s.proof
              \/ e = Entry(st.clauses[n].id, st.clauses[n].lits) /\ Cardinality(st.clauses[n].lits) # 2
  BY <1>1, DeletedIs DEF Clause
<1>3. MarkGarbage(st, n) = Replaced(s, n, AsGarbage(st.clauses[n]))
  BY DEF MarkGarbage
<1>4. AsGarbage(st.clauses[n]) \in Clause
  BY <1>1 DEF AsGarbage, Clause
<1> HIDE DEF s
<1> QED
  BY <1>2, <1>3, <1>4, ReplacedIs

\* A clause with other literals and another id (otfs_strengthen_clause).
LEMMA RenewedIs ==
  ASSUME NEW c \in Clause, NEW C \in SUBSET Lit, NEW i \in Nat
  PROVE  /\ Renewed(c, C, i) \in Clause /\ Renewed(c, C, i).lits = C /\ Renewed(c, C, i).id = i
         /\ Renewed(c, C, i).redundant = c.redundant /\ Renewed(c, C, i).garbage = c.garbage
BY DEF Clause, Renewed

\* The flag alone changes (otfs_subsume_clause).
LEMMA IrredundantIs ==
  ASSUME NEW c \in Clause
  PROVE  /\ Irredundant(c) \in Clause /\ Irredundant(c).lits = c.lits /\ Irredundant(c).id = c.id
         /\ Irredundant(c).garbage = c.garbage /\ Irredundant(c).redundant = FALSE
BY DEF Irredundant, Clause

\* A clause gets other literals under the next id; only its old line goes
\* (Proof::otfs_strengthen_clause).
LEMMA StrengthenedIs ==
  ASSUME NEW st \in LogState, NEW n \in DOMAIN st.clauses, NEW C \in SUBSET Lit, NEW chain
  PROVE  /\ Strengthened(st, n, C, chain) \in LogState
         /\ Strengthened(st, n, C, chain).id = st.id + 1
         /\ Strengthened(st, n, C, chain).units = st.units
         /\ Strengthened(st, n, C, chain).clauses =
              [st.clauses EXCEPT ![n] = Renewed(st.clauses[n], C, st.id + 1)]
         /\ \A e \in st.proof \cup {Entry(st.id + 1, C)} :
              \/ e \in Strengthened(st, n, C, chain).proof
              \/ e = Entry(st.clauses[n].id, st.clauses[n].lits)
<1>1. st.clauses[n] \in Clause /\ st.id + 1 \in Nat
  BY DEF LogState
<1> DEFINE derived == Derived(Counted(st), st.id + 1, C, chain)
           s == Deleted(derived, st.clauses[n].id, st.clauses[n].lits)
           c == Renewed(st.clauses[n], C, st.id + 1)
<1>2. Strengthened(st, n, C, chain) = Replaced(s, n, c)
  BY DEF Strengthened
<1>3. /\ derived \in LogState /\ derived.id = st.id + 1 /\ derived.units = st.units
      /\ derived.clauses = st.clauses /\ derived.proof = st.proof \cup {Entry(st.id + 1, C)}
  BY <1>1, NextDerivedIs, ZenonT(60)
<1> HIDE DEF derived
<1>4. /\ s \in LogState /\ s.id = st.id + 1 /\ s.units = st.units /\ s.clauses = st.clauses
      /\ \A e \in st.proof \cup {Entry(st.id + 1, C)} :
           e \in s.proof \/ e = Entry(st.clauses[n].id, st.clauses[n].lits)
  BY <1>1, <1>3, DeletedIs DEF Clause
<1>5. c \in Clause
  BY <1>1, RenewedIs
<1> HIDE DEF s
<1> QED
  BY <1>2, <1>4, <1>5, ReplacedIs

\* A unit is learned under the next id (Internal::learn_unit_clause).
LEMMA LearnUnitIs ==
  ASSUME NEW st \in LogState, NEW l \in Lit, NEW chain
  PROVE  /\ LearnUnit(st, l, chain) \in LogState
         /\ LearnUnit(st, l, chain).id = st.id + 1
         /\ LearnUnit(st, l, chain).units = [st.units EXCEPT ![l] = st.id + 1]
         /\ LearnUnit(st, l, chain).clauses = st.clauses
         /\ LearnUnit(st, l, chain).proof = st.proof \cup {Entry(st.id + 1, {l})}
<1> DEFINE derived == Derived(Counted(st), st.id + 1, {l}, chain)
<1>1. LearnUnit(st, l, chain) = [derived EXCEPT !.units = [@ EXCEPT ![l] = st.id + 1]]
  BY DEF LearnUnit
<1>2. st.id + 1 \in Nat /\ {l} \in SUBSET Lit
  BY DEF LogState
<1>3. /\ derived \in LogState /\ derived.id = st.id + 1 /\ derived.units = st.units
      /\ derived.clauses = st.clauses /\ derived.proof = st.proof \cup {Entry(st.id + 1, {l})}
  BY <1>2, NextDerivedIs, ZenonT(60)
<1> HIDE DEF derived
<1>4. [st.units EXCEPT ![l] = st.id + 1] \in [Lit -> Nat]
  BY <1>2 DEF LogState
<1> QED
  BY <1>1, <1>3, <1>4, ZenonT(60) DEF LogState

\* A clause of the formula without the literals that are false; its line is in
\* the proof under the id returned (add_new_original_clause).
LEMMA ShortenedIs ==
  ASSUME NEW st \in LogState, NEW id \in Nat, NEW C \in SUBSET Lit, TypeOK,
         id # st.id + 1, Entry(id, C) \in st.proof
  PROVE  LET new == Shortened(st, id, C)
         IN  /\ new.st \in LogState /\ new.id \in Nat
             /\ \/ new.id = id /\ new.st.id = st.id
                \/ new.id = st.id + 1 /\ new.st.id = st.id + 1
             /\ new.st.clauses = st.clauses /\ new.st.units = st.units
             /\ Entry(new.id, C \ Falsified(C)) \in new.st.proof
             /\ \A e \in st.proof : e \in new.st.proof \/ e = Entry(id, C)
<1> DEFINE new == Shortened(st, id, C)
           F == Falsified(C)
           chain == {unit_clauses[-l] : l \in F} \cup {id}
           derived == Derived(Counted(st), st.id + 1, C \ F, chain)
<1>1. CASE F = {}
  <2>1. new = [st |-> st, id |-> id]
    BY <1>1 DEF Shortened
  <2>2. C \ F = C
    BY <1>1
  <2>3. new.st = st /\ new.id = id
    BY <2>1
  <2> QED
    BY <2>2, <2>3
<1>2. CASE F # {}
  <2>1. new = [st |-> Deleted(derived, id, C), id |-> st.id + 1]
    BY <1>2 DEF Shortened
  <2>2. C \ F \in SUBSET Lit /\ st.id + 1 \in Nat
    BY DEF LogState
  <2> HIDE DEF chain, F
  <2>3. /\ derived \in LogState /\ derived.id = st.id + 1 /\ derived.units = st.units
        /\ derived.clauses = st.clauses /\ derived.proof = st.proof \cup {Entry(st.id + 1, C \ F)}
    BY <2>2, NextDerivedIs, ZenonT(60)
  <2> HIDE DEF derived
  <2>4. /\ Deleted(derived, id, C) \in LogState
        /\ Deleted(derived, id, C).id = derived.id /\ Deleted(derived, id, C).clauses = derived.clauses
        /\ Deleted(derived, id, C).units = derived.units
        /\ \A e \in derived.proof : e = Entry(id, C) \/ e \in Deleted(derived, id, C).proof
    BY <2>3, DeletedIs
  <2>5. Entry(st.id + 1, C \ F) # Entry(id, C)
    BY DEF Entry
  <2>6. new.st = Deleted(derived, id, C) /\ new.id = st.id + 1
    BY <2>1
  <2>7. C \ Falsified(C) = C \ F
    BY DEF F
  <2> QED
    BY <2>2, <2>3, <2>4, <2>5, <2>6, <2>7
<1> QED
  BY <1>1, <1>2

\* A pair of clauses at the end of the list.
PairAt(before, after, a, b) ==
  /\ after \in Seq(Clause) /\ Len(after) = Len(before) + 2
  /\ \A n \in DOMAIN before : after[n] = before[n]
  /\ after[Len(before) + 1] = a /\ after[Len(before) + 2] = b

\* Appending two clauses puts a pair at the end (Sequences).
LEMMA AppendedPair ==
  ASSUME NEW s \in Seq(Clause), NEW a \in Clause, NEW b \in Clause
  PROVE  PairAt(s, Append(Append(s, a), b), a, b)
<1>1. Append(s, a) \in Seq(Clause) /\ Append(Append(s, a), b) \in Seq(Clause)
  OBVIOUS
<1>2. Len(Append(s, a)) = Len(s) + 1 /\ \A n \in DOMAIN s : Append(s, a)[n] = s[n]
  OBVIOUS
<1>3. \A n \in DOMAIN Append(s, a) : Append(Append(s, a), b)[n] = Append(s, a)[n]
  BY <1>1
<1> QED
  BY <1>1, <1>2, <1>3 DEF PairAt

\* Clauses that agree in all but the id.
LEMMA SameButId ==
  ASSUME NEW a \in Clause, NEW b \in Clause,
         a.lits = b.lits, a.redundant = b.redundant, a.garbage = b.garbage
  PROVE  a = [b EXCEPT !.id = a.id]
BY DEF Clause

\* A pair of clauses is stored, the first under the id given
\* (add_new_original_clause).
LEMMA StoredIs ==
  ASSUME NEW st \in LogState, NEW id \in Nat, NEW C \in SUBSET Lit
  PROVE  LET c(i) == [lits |-> C, id |-> i, redundant |-> FALSE, garbage |-> FALSE]
         IN  /\ Stored(st, id, C) \in LogState
             /\ Stored(st, id, C).id = st.id + 1 /\ Stored(st, id, C).units = st.units
             /\ PairAt(st.clauses, Stored(st, id, C).clauses, c(id), c(st.id + 2))
             /\ Stored(st, id, C).proof = st.proof
<1> DEFINE c(i) == [lits |-> C, id |-> i, redundant |-> FALSE, garbage |-> FALSE]
           one == NewClause(st, C, FALSE)
           two == NewClause(one, C, FALSE)
           k == Len(st.clauses) + 1
           first == [two.clauses[k] EXCEPT !.id = id]
           r == Replaced(two, k, first)
<1>1. Stored(st, id, C) = [r EXCEPT !.id = @ - 1]
  BY DEF Stored
<1>2. /\ one \in LogState /\ one.id = st.id + 1 /\ one.units = st.units /\ one.proof = st.proof
      /\ one.clauses = Append(st.clauses, c(st.id + 1))
  BY NewClauseIs
<1> HIDE DEF one
<1>3. /\ two \in LogState /\ two.id = one.id + 1 /\ two.units = one.units /\ two.proof = one.proof
      /\ two.clauses = Append(one.clauses, c(one.id + 1))
  BY <1>2, NewClauseIs
<1> HIDE DEF two
<1>4. /\ st.id \in Nat /\ st.clauses \in Seq(Clause) /\ c(id) \in Clause
      /\ c(st.id + 1) \in Clause /\ c(st.id + 2) \in Clause
  BY DEF LogState, Clause
<1>5. one.id + 1 = st.id + 2
  BY <1>2, <1>4
<1>6. two.id = st.id + 2 /\ two.clauses = Append(Append(st.clauses, c(st.id + 1)), c(st.id + 2))
  BY <1>2, <1>3, <1>5
<1>7. [c(st.id + 1) EXCEPT !.id = id] = c(id)
  <2> DEFINE d == c(st.id + 1)
             e == c(id)
  <2>1. /\ d \in Clause /\ e \in Clause /\ d.lits = e.lits /\ d.redundant = e.redundant
        /\ d.garbage = e.garbage /\ e.id = id
    BY <1>4
  <2> HIDE DEF c, d, e
  <2> QED
    BY <2>1, SameButId DEF d, e
<1> HIDE DEF c
<1>8. PairAt(st.clauses, two.clauses, c(st.id + 1), c(st.id + 2))
  BY <1>4, <1>6, AppendedPair
<1>9. k \in DOMAIN two.clauses /\ k \in Nat /\ first = c(id)
  BY <1>4, <1>7, <1>8 DEF PairAt
<1> HIDE DEF first
<1>10. /\ r \in LogState /\ r.id = st.id + 2 /\ r.units = st.units /\ r.proof = st.proof
       /\ r.clauses = [two.clauses EXCEPT ![k] = c(id)]
  BY <1>2, <1>3, <1>4, <1>6, <1>9, ReplacedIs, ZenonT(60)
<1>11. PairAt(st.clauses, r.clauses, c(id), c(st.id + 2))
  <2>1. r.clauses \in Seq(Clause)
    BY <1>10 DEF LogState
  <2>2. two.clauses \in Seq(Clause) /\ DOMAIN two.clauses = 1 .. Len(st.clauses) + 2
    BY <1>8, <1>4 DEF PairAt
  <2> HIDE DEF r
  <2>3. Len(r.clauses) = Len(st.clauses) + 2
    BY <1>4, <1>10, <2>1, <2>2
  <2> QED
    BY <1>4, <1>8, <1>9, <1>10, <2>1, <2>2, <2>3, SMTT(60) DEF PairAt
<1> HIDE DEF r
<1>12. st.id + 1 \in Nat /\ r.id - 1 = st.id + 1
  BY <1>4, <1>10
<1>13. [r EXCEPT !.id = @ - 1] \in LogState
  BY <1>10, <1>12 DEF LogState
<1> QED
  BY <1>1, <1>10, <1>11, <1>12, <1>13 DEF LogState, c

-----------------------------------------------------------------------------
\* A clause and its copy are next to each other (CopiesAgree).
LEMMA PairIs ==
  ASSUME TypeOK, CopiesAgree, NEW n \in Originals
  PROVE  /\ n \in Nat \ {0} /\ n \in DOMAIN clauses /\ n + 1 \in DOMAIN clauses
         /\ n + 1 \notin Originals
         /\ clauses[n] \in Clause /\ clauses[n + 1] \in Clause
         /\ clauses[n + 1].lits = clauses[n].lits
         /\ clauses[n + 1].redundant = clauses[n].redundant
         /\ clauses[n + 1].garbage = clauses[n].garbage
         /\ Cardinality(clauses[n].lits) > 1 /\ ~Tautology(clauses[n].lits)
<1>1. n \in 1 .. Len(clauses) /\ n % 2 = 1 /\ n + 1 \in DOMAIN clauses
  BY SMTT(60) DEF TypeOK, CopiesAgree, Originals
<1>2. clauses[n] \in Clause /\ clauses[n + 1] \in Clause
  BY <1>1 DEF TypeOK
<1>3. clauses[n] = [clauses[n + 1] EXCEPT !.id = clauses[n].id]
  BY DEF CopiesAgree
<1>4. /\ clauses[n + 1].lits = clauses[n].lits /\ clauses[n + 1].redundant = clauses[n].redundant
      /\ clauses[n + 1].garbage = clauses[n].garbage
  BY <1>2, <1>3 DEF Clause
<1>5. n + 1 \notin Originals
  BY <1>1, SMTT(60) DEF Originals
<1> QED
  BY <1>1, <1>2, <1>4, <1>5, SMTT(60) DEF CopiesAgree, Originals

\* The list has as many copies as originals.
LEMMA EvenLength ==
  ASSUME TypeOK, CopiesAgree
  PROVE  Len(clauses) \in Nat /\ Len(clauses) % 2 = 0
<1>1. Len(clauses) \in Nat
  BY DEF TypeOK
<1>2. SUFFICES ASSUME Len(clauses) % 2 # 0 PROVE FALSE
  BY <1>1
<1>3. Len(clauses) \in Originals
  BY <1>1, <1>2 DEF Originals, TypeOK
<1> QED
  BY <1>1, <1>3, PairIs DEF TypeOK

\* The ids given next are free.
TakenNow(id) == Taken(id, clause_id, original_id)
TakenThen(id) == Taken(id, clause_id', original_id')
Fresh(id) == ~TakenNow(id) /\ TakenThen(id)

\* What a step may lose of the proof: lines whose ids no clause in use has.
LosesNothing == \A e \in proof : e \in proof' \/ ~TakenNow(e.id)

\* Ids in use stay in use when the counters only go up.
LEMMA StaysTaken ==
  ASSUME TypeOK, TypeOK', clause_id <= clause_id', original_id <= original_id', NEW id, TakenNow(id)
  PROVE  TakenThen(id)
BY DEF TypeOK, Taken, TakenNow, TakenThen

\* Units may be new while the clauses stay.
LEMMA ClausesStay ==
  ASSUME LogInv, TypeOK', clauses' = clauses, LosesNothing,
         clause_id <= clause_id', original_id <= original_id',
         \A l \in Lit : \/ unit_clauses'[l] = unit_clauses[l]
                        \/ Fresh(unit_clauses'[l]) /\ Entry(unit_clauses'[l], {l}) \in proof',
         confused' = (confused \/ Confusable')
  PROVE  CopiesAgree' /\ UsedClausesInProof' /\ FirstIdsUnique' /\ (Confusable' => confused')
<1>1. /\ TypeOK /\ CopiesAgree /\ UsedClausesInProof /\ FirstIdsUnique /\ (Confusable => confused)
  BY DEF LogInv, ClausesInProof
<1>2. Originals' = Originals /\ \A n \in Originals : Propagating(n)' = Propagating(n)
  BY DEF Originals, Propagating
<1>3. CopiesAgree'
  BY <1>1, <1>2 DEF CopiesAgree
<1>4. ASSUME NEW l \in Lit, unit_clauses'[l] # 0
      PROVE  TakenThen(unit_clauses'[l]) /\ Entry(unit_clauses'[l], {l}) \in proof'
  <2>1. CASE unit_clauses'[l] = unit_clauses[l]
    <3>1. l \in Fixed /\ TakenNow(unit_clauses[l]) /\ Entry(unit_clauses[l], {l}) \in proof
      BY <1>1, <1>4, <2>1 DEF Fixed, FirstIdsUnique, UsedClausesInProof, TakenNow
    <3>2. Entry(unit_clauses[l], {l}).id = unit_clauses[l]
      BY DEF Entry
    <3> QED
      BY <1>1, <2>1, <3>1, <3>2, StaysTaken DEF LosesNothing
  <2>2. CASE Fresh(unit_clauses'[l]) /\ Entry(unit_clauses'[l], {l}) \in proof'
    BY <2>2 DEF Fresh
  <2> QED
    BY <2>1, <2>2
<1>5. ASSUME NEW n \in Originals, Propagating(n), ~confused
      PROVE  Entry(clauses[n].id, clauses[n].lits) \in proof'
  <2>1. TakenNow(clauses[n].id) /\ Entry(clauses[n].id, clauses[n].lits) \in proof
    BY <1>1, <1>5 DEF FirstIdsUnique, UsedClausesInProof, TakenNow
  <2>2. Entry(clauses[n].id, clauses[n].lits).id = clauses[n].id
    BY DEF Entry
  <2> QED
    BY <2>1, <2>2 DEF LosesNothing
<1>6. UsedClausesInProof'
  BY <1>2, <1>4, <1>5 DEF UsedClausesInProof, Fixed
<1>7. ASSUME NEW n \in Originals
      PROVE  TakenThen(clauses[n].id) /\ \A l \in Lit : clauses[n].id # unit_clauses'[l]
  <2>1. TakenNow(clauses[n].id) /\ \A l \in Lit : clauses[n].id # unit_clauses[l]
    BY <1>1 DEF FirstIdsUnique, TakenNow
  <2> QED
    BY <1>1, <2>1, StaysTaken DEF Fresh
<1>8. FirstIdsUnique'
  BY <1>1, <1>2, <1>4, <1>7 DEF FirstIdsUnique, Fixed, TakenThen
<1> QED
  BY <1>3, <1>6, <1>8

\* A pair is added, the first under a free id and with a line in the proof.
LEMMA PairAdded ==
  ASSUME LogInv, TypeOK', NEW a \in Clause, NEW b \in Clause, PairAt(clauses, clauses', a, b),
         a = [b EXCEPT !.id = a.id], Cardinality(a.lits) > 1, ~Tautology(a.lits),
         LosesNothing, clause_id <= clause_id', original_id <= original_id',
         unit_clauses' = unit_clauses, Fresh(a.id), Entry(a.id, a.lits) \in proof',
         confused' = (confused \/ Confusable')
  PROVE  /\ CopiesAgree' /\ UsedClausesInProof' /\ FirstIdsUnique' /\ (Confusable' => confused')
         /\ Originals' = Originals \cup {Len(clauses) + 1}
         /\ \A n \in Originals : clauses'[n] = clauses[n]
         /\ clauses'[Len(clauses) + 1] = a
<1> DEFINE k == Len(clauses) + 1
<1>1. /\ TypeOK /\ CopiesAgree /\ UsedClausesInProof /\ FirstIdsUnique /\ (Confusable => confused)
  BY DEF LogInv, ClausesInProof
<1>2. /\ Len(clauses) \in Nat /\ Len(clauses) % 2 = 0 /\ DOMAIN clauses = 1 .. Len(clauses)
      /\ DOMAIN clauses' = 1 .. Len(clauses) + 2
  BY <1>1, EvenLength, SMTT(60) DEF TypeOK, PairAt
<1>3. \A n \in DOMAIN clauses : clauses'[n] = clauses[n]
  BY DEF PairAt
<1>4. clauses'[k] = a /\ clauses'[k + 1] = b
  BY <1>2 DEF PairAt
<1>5. Originals' = Originals \cup {k} /\ k \notin Originals
  BY <1>2 DEF Originals
<1>6. \A n \in Originals : n \in DOMAIN clauses /\ n + 1 \in DOMAIN clauses
  BY <1>1, PairIs
<1>7. CopiesAgree'
  BY <1>1, <1>2, <1>3, <1>4, <1>5, <1>6 DEF CopiesAgree
<1>8. ASSUME NEW n \in Originals
      PROVE  TakenThen(clauses[n].id) /\ clauses[n].id # a.id /\ TakenNow(clauses[n].id)
  BY <1>1, StaysTaken DEF FirstIdsUnique, Fresh, TakenNow
<1>9. ASSUME NEW l \in Fixed
      PROVE  /\ TakenThen(unit_clauses[l]) /\ unit_clauses[l] # a.id
             /\ Entry(unit_clauses[l], {l}) \in proof'
  <2>1. TakenNow(unit_clauses[l]) /\ Entry(unit_clauses[l], {l}) \in proof
    BY <1>1 DEF FirstIdsUnique, UsedClausesInProof, TakenNow
  <2>2. Entry(unit_clauses[l], {l}).id = unit_clauses[l]
    BY DEF Entry
  <2> QED
    BY <1>1, <2>1, <2>2, StaysTaken DEF Fresh, LosesNothing
<1>10. a.id # 0
  BY DEF Fresh, TakenThen, Taken
<1>11. FirstIdsUnique'
  <2>1. \A m, n \in Originals : m # n => clauses[m].id # clauses[n].id
    BY <1>1 DEF FirstIdsUnique
  <2>2. \A m, n \in Originals' : m # n => clauses'[m].id # clauses'[n].id
    BY <1>3, <1>4, <1>5, <1>6, <1>8, <2>1
  <2>3. \A l \in Lit : unit_clauses[l] # a.id
    BY <1>9, <1>10 DEF Fixed
  <2>4. ASSUME NEW n \in Originals'
        PROVE  TakenThen(clauses'[n].id) /\ clauses'[n].id \notin {unit_clauses[l] : l \in Lit}
    <3>1. CASE n = k
      BY <1>4, <2>3, <3>1 DEF Fresh
    <3>2. CASE n \in Originals
      BY <1>1, <1>3, <1>6, <1>8, <3>2 DEF FirstIdsUnique
    <3> QED
      BY <1>5, <2>4, <3>1, <3>2
  <2> QED
    BY <1>9, <2>2, <2>4 DEF FirstIdsUnique, Fixed, TakenThen
<1>12. ASSUME NEW n \in Originals, Propagating(n)', ~confused
       PROVE  Entry(clauses'[n].id, clauses'[n].lits) \in proof'
  <2>1. Propagating(n) /\ clauses'[n] = clauses[n]
    BY <1>3, <1>6, <1>12 DEF Propagating
  <2>2. Entry(clauses[n].id, clauses[n].lits) \in proof
    BY <1>1, <1>12, <2>1 DEF UsedClausesInProof
  <2>3. Entry(clauses[n].id, clauses[n].lits).id = clauses[n].id
    BY DEF Entry
  <2> QED
    BY <1>8, <2>1, <2>2, <2>3 DEF LosesNothing
<1>13. UsedClausesInProof'
  BY <1>4, <1>5, <1>9, <1>12 DEF UsedClausesInProof, Fixed
<1> QED
  BY <1>3, <1>4, <1>5, <1>6, <1>7, <1>11, <1>13

\* A literal is not a clause with a copy, so no unit is deleted with a clause.
LEMMA UnitIsShort ==
  ASSUME NEW l, NEW C, Cardinality(C) > 1, NEW i, NEW j
  PROVE  Entry(i, {l}) # Entry(j, C)
<1>1. Cardinality({l}) = 1
  BY FS_Singleton
<1> QED
  BY <1>1 DEF Entry

\* A pair is marked: what goes from the proof is its lines, if it is not binary.
PairMarked(n) ==
  /\ DOMAIN clauses' = DOMAIN clauses
  /\ clauses'[n] = AsGarbage(clauses[n]) /\ clauses'[n + 1] = AsGarbage(clauses[n + 1])
  /\ \A m \in DOMAIN clauses \ {n, n + 1} : clauses'[m] = clauses[m]
  /\ \A e \in proof :
       \/ e \in proof'
       \/ /\ Cardinality(clauses[n].lits) # 2
          /\ e \in {Entry(clauses[n].id, clauses[n].lits), Entry(clauses[n + 1].id, clauses[n].lits)}

\* Only clauses that are no longer used go from the proof when a pair is marked,
\* unless a copy was confused with it (mark_garbage).
LEMMA MarkedPair ==
  ASSUME LogInv, TypeOK', NEW n \in Originals, ~clauses[n].garbage, PairMarked(n),
         clause_id' = clause_id, original_id' = original_id, unit_clauses' = unit_clauses,
         confused' = (confused \/ Confusable')
  PROVE  CopiesAgree' /\ UsedClausesInProof' /\ FirstIdsUnique' /\ (Confusable' => confused')
<1>1. /\ TypeOK /\ CopiesAgree /\ UsedClausesInProof /\ FirstIdsUnique /\ (Confusable => confused)
  BY DEF LogInv, ClausesInProof
<1>2. Originals' = Originals /\ DOMAIN clauses' = DOMAIN clauses
  BY DEF Originals, PairMarked
<1>3. ASSUME NEW m \in Originals
      PROVE  /\ clauses'[m] \in Clause
             /\ clauses'[m] = IF m = n THEN AsGarbage(clauses[m]) ELSE clauses[m]
             /\ clauses'[m + 1] = IF m = n THEN AsGarbage(clauses[m + 1]) ELSE clauses[m + 1]
             /\ clauses'[m].lits = clauses[m].lits /\ clauses'[m].id = clauses[m].id
             /\ m # n => clauses'[m] = clauses[m]
             /\ m = n => clauses'[m].garbage
  <2>1. m # n => m + 1 # n /\ m # n + 1
    BY <1>1, PairIs
  <2>2. m \in DOMAIN clauses /\ m + 1 \in DOMAIN clauses /\ clauses[m] \in Clause /\ m \in Nat /\ n \in Nat
    BY <1>1, PairIs
  <2>3. clauses'[m] = IF m = n THEN AsGarbage(clauses[m]) ELSE clauses[m]
    BY <2>1, <2>2 DEF PairMarked
  <2>4. clauses'[m + 1] = IF m = n THEN AsGarbage(clauses[m + 1]) ELSE clauses[m + 1]
    BY <2>1, <2>2 DEF PairMarked
  <2>5. /\ AsGarbage(clauses[m]) \in Clause /\ AsGarbage(clauses[m]).garbage
        /\ AsGarbage(clauses[m]).lits = clauses[m].lits /\ AsGarbage(clauses[m]).id = clauses[m].id
    BY <2>2 DEF AsGarbage, Clause
  <2> QED
    BY <2>2, <2>3, <2>4, <2>5
<1>4. CopiesAgree'
  <2> SUFFICES ASSUME NEW m \in Originals
      PROVE  /\ m + 1 \in DOMAIN clauses' /\ clauses'[m] = [clauses'[m + 1] EXCEPT !.id = clauses'[m].id]
             /\ Cardinality(clauses'[m].lits) > 1 /\ ~Tautology(clauses'[m].lits)
    BY <1>2 DEF CopiesAgree, Tautology
  <2>1. /\ m + 1 \in DOMAIN clauses /\ clauses[m] = [clauses[m + 1] EXCEPT !.id = clauses[m].id]
        /\ Cardinality(clauses[m].lits) > 1 /\ ~Tautology(clauses[m].lits)
        /\ clauses[m + 1] \in Clause /\ clauses[m] \in Clause
    BY <1>1, PairIs DEF CopiesAgree
  <2>2. CASE m = n
    <3>1. clauses'[m] = AsGarbage(clauses[m]) /\ clauses'[m + 1] = AsGarbage(clauses[m + 1])
      BY <1>3, <2>2
    <3>2. clauses'[m] = [clauses'[m + 1] EXCEPT !.id = clauses'[m].id]
      BY <2>1, <3>1, ZenonT(60) DEF AsGarbage, Clause
    <3> QED
      BY <1>2, <1>3, <2>1, <3>2
  <2>3. CASE m # n
    BY <1>2, <1>3, <2>1, <2>3
  <2> QED
    BY <2>2, <2>3
<1>5. FirstIdsUnique'
  BY <1>1, <1>2, <1>3 DEF FirstIdsUnique, Fixed
<1>6. ASSUME NEW m \in Originals, Propagating(m)', ~confused
      PROVE  Entry(clauses'[m].id, clauses'[m].lits) \in proof'
  <2>1. CASE m = n
    <3>1. Cardinality(clauses[n].lits) = 2
      BY <1>3, <1>6, <2>1 DEF Propagating
    <3>2. Entry(clauses[n].id, clauses[n].lits) \in proof
      BY <1>1, <1>6 DEF UsedClausesInProof, Propagating
    <3> QED
      BY <1>3, <2>1, <3>1, <3>2 DEF PairMarked
  <2>2. CASE m # n
    <3>1. Propagating(m) /\ clauses'[m] = clauses[m] /\ Propagating(n)
      BY <1>3, <1>6, <2>2 DEF Propagating
    <3>2. Entry(clauses[m].id, clauses[m].lits) \in proof
      BY <1>1, <1>6, <3>1 DEF UsedClausesInProof
    <3>3. clauses[m].id # clauses[n].id
      BY <1>1, <2>2 DEF FirstIdsUnique
    <3>4. clauses[n + 1].id # clauses[m].id \/ clauses[n].lits # clauses[m].lits
      BY <1>1, <1>6, <2>2, <3>1 DEF Confusable
    <3> QED
      BY <3>1, <3>2, <3>3, <3>4 DEF PairMarked, Entry
  <2> QED
    BY <2>1, <2>2
<1>7. ASSUME NEW l \in Fixed
      PROVE  Entry(unit_clauses[l], {l}) \in proof'
  <2>1. Entry(unit_clauses[l], {l}) \in proof /\ Cardinality(clauses[n].lits) > 1
    BY <1>1, PairIs DEF UsedClausesInProof
  <2>2. \A i, j : Entry(i, {l}) # Entry(j, clauses[n].lits)
    BY <2>1, UnitIsShort
  <2> QED
    BY <2>1, <2>2 DEF PairMarked
<1>8. UsedClausesInProof'
  BY <1>2, <1>6, <1>7 DEF UsedClausesInProof, Fixed
<1> QED
  BY <1>4, <1>5, <1>8

\* Two clauses are replaced and none else, and the lines that go are theirs
\* (on_the_fly_strengthen2).
LEMMA OtfsStrengthenedIs ==
  ASSUME TypeOK, CopiesAgree, NEW n \in Originals, NEW C \in SUBSET Lit
  PROVE  LET st == OtfsStrengthened(n, C)
         IN  /\ st \in LogState /\ st.id = clause_id + 2 /\ st.units = unit_clauses
             /\ DOMAIN st.clauses = DOMAIN clauses
             /\ st.clauses[n] = Renewed(clauses[n], C, clause_id + 1)
             /\ st.clauses[n + 1] = Renewed(clauses[n + 1], C, clause_id + 2)
             /\ \A m \in DOMAIN clauses \ {n, n + 1} : st.clauses[m] = clauses[m]
             /\ \A e \in proof \cup {Entry(clause_id + 1, C)} :
                  e \in st.proof \/ e \in {Entry(clauses[n].id, clauses[n].lits),
                                           Entry(clauses[n + 1].id, clauses[n].lits)}
<1> DEFINE one == Strengthened(Now, n, C, Some)
           two == Strengthened(one, n + 1, C, {})
<1>1. /\ Now \in LogState /\ Now.id = clause_id /\ Now.units = unit_clauses
      /\ Now.clauses = clauses /\ Now.proof = proof /\ clause_id \in Nat
      /\ clauses \in Seq(Clause)
  BY NowTyped DEF Now, TypeOK
<1>2. /\ n \in DOMAIN clauses /\ n + 1 \in DOMAIN clauses /\ n # n + 1
      /\ clauses[n] \in Clause /\ clauses[n + 1] \in Clause /\ clauses[n + 1].lits = clauses[n].lits
  BY PairIs
<1>3. /\ one \in LogState /\ one.id = clause_id + 1 /\ one.units = unit_clauses
      /\ one.clauses = [clauses EXCEPT ![n] = Renewed(clauses[n], C, clause_id + 1)]
      /\ \A e \in proof \cup {Entry(clause_id + 1, C)} :
           e \in one.proof \/ e = Entry(clauses[n].id, clauses[n].lits)
  <2>1. n \in DOMAIN Now.clauses
    BY <1>1, <1>2
  <2>2. /\ Strengthened(Now, n, C, Some) \in LogState
        /\ Strengthened(Now, n, C, Some).id = Now.id + 1
        /\ Strengthened(Now, n, C, Some).units = Now.units
        /\ Strengthened(Now, n, C, Some).clauses =
             [Now.clauses EXCEPT ![n] = Renewed(Now.clauses[n], C, Now.id + 1)]
        /\ \A e \in Now.proof \cup {Entry(Now.id + 1, C)} :
             \/ e \in Strengthened(Now, n, C, Some).proof
             \/ e = Entry(Now.clauses[n].id, Now.clauses[n].lits)
    BY <1>1, <2>1, StrengthenedIs, Zenon
  <2> HIDE DEF one
  <2> QED
    BY <1>1, <2>2 DEF one
<1> HIDE DEF one
<1>4. DOMAIN one.clauses = DOMAIN clauses /\ one.clauses[n + 1] = clauses[n + 1]
  BY <1>1, <1>2, <1>3
<1>5. /\ two \in LogState /\ two.id = one.id + 1 /\ two.units = one.units
      /\ two.clauses = [one.clauses EXCEPT ![n + 1] = Renewed(one.clauses[n + 1], C, one.id + 1)]
      /\ \A e \in one.proof \cup {Entry(one.id + 1, C)} :
           e \in two.proof \/ e = Entry(one.clauses[n + 1].id, one.clauses[n + 1].lits)
  <2>1. n + 1 \in DOMAIN one.clauses
    BY <1>2, <1>4
  <2> DEFINE k == n + 1
  <2>2. k \in DOMAIN one.clauses
    BY <2>1
  <2> HIDE DEF k
  <2>3. /\ Strengthened(one, k, C, {}) \in LogState
        /\ Strengthened(one, k, C, {}).id = one.id + 1
        /\ Strengthened(one, k, C, {}).units = one.units
        /\ Strengthened(one, k, C, {}).clauses =
             [one.clauses EXCEPT ![k] = Renewed(one.clauses[k], C, one.id + 1)]
        /\ \A e \in one.proof \cup {Entry(one.id + 1, C)} :
             \/ e \in Strengthened(one, k, C, {}).proof
             \/ e = Entry(one.clauses[k].id, one.clauses[k].lits)
    BY <1>3, <2>2, StrengthenedIs, Zenon
  <2> QED
    BY <2>3 DEF k
<1> HIDE DEF two
<1>6. one.id + 1 = clause_id + 2
  BY <1>1, <1>3
<1>7. \A e \in proof \cup {Entry(clause_id + 1, C)} :
        e \in two.proof \/ e \in {Entry(clauses[n].id, clauses[n].lits),
                                  Entry(clauses[n + 1].id, clauses[n].lits)}
  BY <1>2, <1>3, <1>4, <1>5
<1>8. /\ DOMAIN two.clauses = DOMAIN clauses
      /\ two.clauses[n] = Renewed(clauses[n], C, clause_id + 1)
      /\ two.clauses[n + 1] = Renewed(clauses[n + 1], C, clause_id + 2)
      /\ \A m \in DOMAIN clauses \ {n, n + 1} : two.clauses[m] = clauses[m]
  BY <1>1, <1>2, <1>3, <1>4, <1>5, <1>6
<1> QED
  BY <1>3, <1>5, <1>6, <1>7, <1>8 DEF OtfsStrengthened, one, two

\* The subsumed pair is marked, and the flag of the other may change
\* (otfs_subsume_clause).
LEMMA OtfsSubsumedIs ==
  ASSUME NEW st \in LogState, NEW c \in DOMAIN st.clauses, NEW d \in DOMAIN st.clauses,
         c + 1 \in DOMAIN st.clauses, d + 1 \in DOMAIN st.clauses,
         c # d, c + 1 # d, c # d + 1, st.clauses[d + 1].lits = st.clauses[d].lits
  PROVE  LET r == OtfsSubsumed(st, c, d)
             keep == st.clauses[d].redundant \/ ~st.clauses[c].redundant
         IN  /\ r \in LogState /\ r.id = st.id /\ r.units = st.units
             /\ DOMAIN r.clauses = DOMAIN st.clauses
             /\ \A m \in {c, c + 1} :
                  r.clauses[m] = IF keep THEN st.clauses[m] ELSE Irredundant(st.clauses[m])
             /\ \A m \in {d, d + 1} : r.clauses[m] = AsGarbage(st.clauses[m])
             /\ \A m \in DOMAIN st.clauses \ {c, c + 1, d, d + 1} : r.clauses[m] = st.clauses[m]
             /\ \A e \in st.proof :
                  \/ e \in r.proof
                  \/ /\ Cardinality(st.clauses[d].lits) # 2
                     /\ e \in {Entry(st.clauses[d].id, st.clauses[d].lits),
                               Entry(st.clauses[d + 1].id, st.clauses[d].lits)}
<1> DEFINE keep == st.clauses[d].redundant \/ ~st.clauses[c].redundant
           half == Replaced(st, c, Irredundant(st.clauses[c]))
           both == Replaced(half, c + 1, Irredundant(st.clauses[c + 1]))
           kept == IF keep THEN st ELSE both
           one == MarkGarbage(kept, d)
           two == MarkGarbage(one, d + 1)
<1>1. /\ st.clauses \in Seq(Clause) /\ \A m \in DOMAIN st.clauses : st.clauses[m] \in Clause
      /\ c \in Nat /\ d \in Nat /\ c # c + 1 /\ d # d + 1 /\ c + 1 # d + 1
  BY DEF LogState
<1>2. \A m \in DOMAIN st.clauses : Irredundant(st.clauses[m]) \in Clause
  BY <1>1 DEF Irredundant, Clause
<1>3. /\ half \in LogState /\ half.id = st.id /\ half.units = st.units /\ half.proof = st.proof
      /\ half.clauses = [st.clauses EXCEPT ![c] = Irredundant(st.clauses[c])]
  BY <1>2, ReplacedIs
<1> HIDE DEF half
<1>4. DOMAIN half.clauses = DOMAIN st.clauses
  BY <1>1, <1>3
<1>5. /\ both \in LogState /\ both.id = half.id /\ both.units = half.units /\ both.proof = half.proof
      /\ both.clauses = [half.clauses EXCEPT ![c + 1] = Irredundant(st.clauses[c + 1])]
  BY <1>2, <1>3, <1>4, ReplacedIs
<1> HIDE DEF both
<1>6. /\ kept \in LogState /\ kept.id = st.id /\ kept.units = st.units /\ kept.proof = st.proof
  BY <1>3, <1>5
<1>7. /\ DOMAIN kept.clauses = DOMAIN st.clauses
      /\ \A m \in {c, c + 1} :
           kept.clauses[m] = IF keep THEN st.clauses[m] ELSE Irredundant(st.clauses[m])
      /\ \A m \in DOMAIN st.clauses \ {c, c + 1} : kept.clauses[m] = st.clauses[m]
  <2>1. CASE keep
    BY <2>1
  <2>2. CASE ~keep
    <3>1. kept = both
      BY <2>2
    <3> HIDE DEF kept, keep
    <3> QED
      BY <1>1, <1>3, <1>4, <1>5, <2>2, <3>1, SMTT(60)
  <2> QED
    BY <2>1, <2>2
<1> HIDE DEF kept
<1>8. kept.clauses[d] = st.clauses[d] /\ kept.clauses[d + 1] = st.clauses[d + 1]
  BY <1>1, <1>7, SMTT(60)
<1>9. /\ one \in LogState /\ one.id = st.id /\ one.units = st.units
      /\ one.clauses = [kept.clauses EXCEPT ![d] = AsGarbage(st.clauses[d])]
      /\ \A e \in st.proof :
              \/ e \in one.proof
              \/ e = Entry(st.clauses[d].id, st.clauses[d].lits) /\ Cardinality(st.clauses[d].lits) # 2
  BY <1>6, <1>7, <1>8, MarkGarbageIs
<1> HIDE DEF one
<1>10. /\ DOMAIN one.clauses = DOMAIN st.clauses /\ one.clauses[d + 1] = st.clauses[d + 1]
       /\ one.clauses[d] = AsGarbage(st.clauses[d])
       /\ \A m \in DOMAIN st.clauses \ {d} : one.clauses[m] = kept.clauses[m]
  BY <1>1, <1>7, <1>8, <1>9
<1>11. /\ two \in LogState /\ two.id = st.id /\ two.units = st.units
       /\ two.clauses = [one.clauses EXCEPT ![d + 1] = AsGarbage(st.clauses[d + 1])]
       /\ \A e \in one.proof :
              \/ e \in two.proof
              \/ e = Entry(st.clauses[d + 1].id, st.clauses[d].lits) /\ Cardinality(st.clauses[d].lits) # 2
  BY <1>9, <1>10, MarkGarbageIs
<1> HIDE DEF two
<1>12. /\ DOMAIN two.clauses = DOMAIN st.clauses
       /\ two.clauses[d + 1] = AsGarbage(st.clauses[d + 1])
       /\ \A m \in DOMAIN st.clauses \ {d + 1} : two.clauses[m] = one.clauses[m]
  BY <1>10, <1>11
<1>13. /\ \A m \in {c, c + 1} :
            two.clauses[m] = IF keep THEN st.clauses[m] ELSE Irredundant(st.clauses[m])
       /\ \A m \in {d, d + 1} : two.clauses[m] = AsGarbage(st.clauses[m])
       /\ \A m \in DOMAIN st.clauses \ {c, c + 1, d, d + 1} : two.clauses[m] = st.clauses[m]
  <2> HIDE DEF keep
  <2> QED
    BY <1>1, <1>7, <1>10, <1>12, SMTT(60)
<1>14. OtfsSubsumed(st, c, d) = two
  BY DEF OtfsSubsumed, two, one, kept, both, half
<1>15. \A e \in st.proof :
         \/ e \in two.proof
         \/ /\ Cardinality(st.clauses[d].lits) # 2
            /\ e \in {Entry(st.clauses[d].id, st.clauses[d].lits),
                      Entry(st.clauses[d + 1].id, st.clauses[d].lits)}
  BY <1>9, <1>11
<1> QED
  BY <1>11, <1>12, <1>13, <1>14, <1>15

\* Marked clauses agree as before (mark_garbage).
LEMMA MarkedAgree ==
  ASSUME NEW a \in Clause, NEW b \in Clause, a = [b EXCEPT !.id = a.id]
  PROVE  /\ AsGarbage(a) \in Clause /\ AsGarbage(a).garbage /\ AsGarbage(a).lits = a.lits
         /\ AsGarbage(a).id = a.id /\ AsGarbage(a) = [AsGarbage(b) EXCEPT !.id = a.id]
BY DEF AsGarbage, Clause

\* One pair has lost literals and got new ids, and pairs that are subsumed are
\* marked: lines that go from the proof are those of these pairs.
PairStrengthened(n, C, D) ==
  /\ DOMAIN clauses' = DOMAIN clauses
  /\ clauses'[n].id = clause_id + 1 /\ clauses'[n].lits = C
  /\ clauses'[n] = [clauses'[n + 1] EXCEPT !.id = clause_id + 1]
  /\ \A m \in Originals \ {n} :
       /\ clauses'[m] = IF m \in D THEN AsGarbage(clauses[m]) ELSE clauses[m]
       /\ clauses'[m + 1] = IF m \in D THEN AsGarbage(clauses[m + 1]) ELSE clauses[m + 1]
  /\ \A e \in proof \cup {Entry(clause_id + 1, C)} :
       \/ e \in proof'
       \/ \E m \in D \cup {n} :
            /\ Cardinality(clauses[m].lits) # 2
            /\ e \in {Entry(clauses[m].id, clauses[m].lits), Entry(clauses[m + 1].id, clauses[m].lits)}

\* The strengthened clause is in the proof under its new id, and what goes from
\* the proof is not used, unless a copy was confused with it (on_the_fly_strengthen2).
LEMMA StrengthenedPair ==
  ASSUME LogInv, TypeOK', NEW n \in Originals, NEW l \in clauses[n].lits,
         NEW C \in SUBSET (clauses[n].lits \ {l}), Cardinality(C) > 1, ~clauses[n].garbage,
         NEW D \in SUBSET (Originals \ {n}),
         \A d \in D : ~clauses[d].garbage /\ -l \in clauses[d].lits,
         Cardinality(clauses[n].lits) > 2,
         PairStrengthened(n, C, D), clause_id' = clause_id + 2, original_id' = original_id,
         unit_clauses' = unit_clauses, confused' = (confused \/ Confusable')
  PROVE  CopiesAgree' /\ UsedClausesInProof' /\ FirstIdsUnique' /\ (Confusable' => confused')
<1>1. /\ TypeOK /\ CopiesAgree /\ UsedClausesInProof /\ FirstIdsUnique /\ (Confusable => confused)
  BY DEF LogInv, ClausesInProof
<1>2. Originals' = Originals /\ DOMAIN clauses' = DOMAIN clauses
  BY DEF Originals, PairStrengthened
<1>3. \A m \in Originals :
        /\ m \in DOMAIN clauses /\ m + 1 \in DOMAIN clauses
        /\ clauses[m] \in Clause /\ clauses[m + 1] \in Clause
        /\ clauses'[m] \in Clause /\ clauses'[m + 1] \in Clause
        /\ Cardinality(clauses[m].lits) > 1 /\ ~Tautology(clauses[m].lits)
  <2>1. \A m \in DOMAIN clauses : clauses'[m] \in Clause
    BY <1>2 DEF TypeOK
  <2> QED
    BY <1>1, <2>1, PairIs
<1>4. clause_id \in Nat /\ clause_id >= Len(Formula) /\ Len(Formula) \in Nat /\ original_id \in Nat
  BY <1>1, ProofLogAssumption DEF TypeOK
<1>5. ~Tautology(C) /\ -l \notin C /\ l \notin C
  <2>1. l \in Lit /\ -(-l) = l
    BY <1>3, NegationIsLit DEF Clause
  <2> QED
    BY <1>3, <2>1 DEF Tautology
<1>6. ASSUME NEW m \in Originals, m # n
      PROVE  /\ clauses'[m].lits = clauses[m].lits /\ clauses'[m].id = clauses[m].id
             /\ m \notin D => clauses'[m] = clauses[m]
             /\ m \in D => clauses'[m].garbage
             /\ clauses'[m] = [clauses'[m + 1] EXCEPT !.id = clauses[m].id]
  <2>1. /\ clauses[m] = [clauses[m + 1] EXCEPT !.id = clauses[m].id]
        /\ clauses[m] \in Clause /\ clauses[m + 1] \in Clause
    BY <1>1, <1>3 DEF CopiesAgree
  <2>2. CASE m \in D
    <3>1. clauses'[m] = AsGarbage(clauses[m]) /\ clauses'[m + 1] = AsGarbage(clauses[m + 1])
      BY <1>6, <2>2 DEF PairStrengthened
    <3> QED
      BY <2>1, <2>2, <3>1, MarkedAgree
  <2>3. CASE m \notin D
    BY <1>6, <2>1, <2>3 DEF PairStrengthened
  <2> QED
    BY <2>2, <2>3
<1>7. CopiesAgree'
  <2> SUFFICES ASSUME NEW m \in Originals
      PROVE  /\ m + 1 \in DOMAIN clauses' /\ clauses'[m] = [clauses'[m + 1] EXCEPT !.id = clauses'[m].id]
             /\ Cardinality(clauses'[m].lits) > 1 /\ ~Tautology(clauses'[m].lits)
    BY <1>2 DEF CopiesAgree, Tautology
  <2>1. CASE m = n
    BY <1>2, <1>3, <1>5, <2>1 DEF PairStrengthened
  <2>2. CASE m # n
    BY <1>2, <1>3, <1>6, <2>2
  <2> QED
    BY <2>1, <2>2
<1>8. ASSUME NEW m \in Originals, m # n
      PROVE  TakenThen(clauses[m].id) /\ clauses[m].id # clause_id + 1 /\ clauses[m].id # 0
  <2>1. clauses[m].id \in 1 .. clause_id /\ TakenNow(clauses[m].id)
    BY <1>1 DEF FirstIdsUnique, Taken, TakenNow
  <2> QED
    BY <1>1, <1>4, <2>1, StaysTaken
<1>9. ASSUME NEW k \in Lit
      PROVE  clause_id + 1 # unit_clauses[k] /\ (k \in Fixed => TakenThen(unit_clauses[k]))
  <2>1. CASE k \in Fixed
    <3>1. unit_clauses[k] \in 1 .. clause_id /\ TakenNow(unit_clauses[k])
      BY <1>1, <2>1 DEF FirstIdsUnique, Taken, TakenNow
    <3> QED
      BY <1>1, <1>4, <3>1, StaysTaken
  <2>2. CASE k \notin Fixed
    BY <1>4, <2>2 DEF Fixed
  <2> QED
    BY <2>1, <2>2
<1>10. clauses'[n].id = clause_id + 1 /\ clauses'[n].lits = C
  BY DEF PairStrengthened
<1>11. TakenThen(clause_id + 1)
  BY <1>4 DEF TakenThen, Taken
<1>12. FirstIdsUnique'
  <2>0. \A m \in Originals : m # n => clauses'[m].id = clauses[m].id
    BY <1>6
  <2>1. \A m, k \in Originals : m # k => clauses'[m].id # clauses'[k].id
    <3>1. \A m, k \in Originals : m # k => clauses[m].id # clauses[k].id
      BY <1>1 DEF FirstIdsUnique
    <3>2. \A m \in Originals : m # n => clauses'[m].id # clauses'[n].id
      BY <1>8, <1>10, <2>0
    <3> QED
      BY <2>0, <3>1, <3>2
  <2>2. \A m \in Originals : TakenThen(clauses'[m].id)
    <3> TAKE m \in Originals
    <3>1. CASE m = n
      BY <1>10, <1>11, <3>1
    <3>2. CASE m # n
      BY <1>8, <2>0, <3>2
    <3> QED
      BY <3>1, <3>2
  <2>3. \A m \in Originals, k \in Lit : clauses'[m].id # unit_clauses[k]
    <3>1. \A m \in Originals, k \in Lit : clauses[m].id # unit_clauses[k]
      BY <1>1 DEF FirstIdsUnique
    <3> TAKE m \in Originals, k \in Lit
    <3>2. CASE m = n
      BY <1>9, <1>10, <3>2
    <3>3. CASE m # n
      BY <2>0, <3>1, <3>3
    <3> QED
      BY <3>2, <3>3
  <2> QED
    BY <1>2, <1>9, <2>1, <2>2, <2>3 DEF FirstIdsUnique, Fixed, TakenThen
<1>13. ASSUME NEW m \in Originals, Propagating(m)', ~confused
       PROVE  Entry(clauses'[m].id, clauses'[m].lits) \in proof'
  <2>1. CASE m = n
    <3>1. \A k \in D \cup {n} : C # clauses[k].lits
      BY <1>5
    <3>2. \A k \in D \cup {n} : \A i : Entry(clause_id + 1, C) # Entry(i, clauses[k].lits)
      BY <3>1 DEF Entry
    <3>3. Entry(clause_id + 1, C) \in proof'
      <4> DEFINE e == Entry(clause_id + 1, C)
      <4>1. e \in proof \cup {e}
        OBVIOUS
      <4> HIDE DEF e
      <4>2. \A d \in D \cup {n} :
              e \notin {Entry(clauses[d].id, clauses[d].lits), Entry(clauses[d + 1].id, clauses[d].lits)}
        BY <3>2 DEF e
      <4>3. \A f \in proof \cup {e} :
              \/ f \in proof'
              \/ \E d \in D \cup {n} :
                   f \in {Entry(clauses[d].id, clauses[d].lits), Entry(clauses[d + 1].id, clauses[d].lits)}
        BY DEF PairStrengthened, e
      <4> QED
        BY <4>1, <4>2, <4>3 DEF e
    <3> QED
      BY <1>10, <2>1, <3>3
  <2>2. CASE m # n
    <3>1. Propagating(m) /\ Entry(clauses[m].id, clauses[m].lits) \in proof
      <4>1. Propagating(m)
        BY <1>6, <1>13, <2>2 DEF Propagating
      <4> QED
        BY <1>1, <1>13, <4>1 DEF UsedClausesInProof
    <3>2. ASSUME NEW k \in D \cup {n}, Cardinality(clauses[k].lits) # 2
          PROVE  /\ clauses[k].id # clauses[m].id
                 /\ clauses[k + 1].id # clauses[m].id \/ clauses[k].lits # clauses[m].lits
      <4>1. CASE k = m
        <5>1. clauses'[m].garbage /\ Cardinality(clauses'[m].lits) # 2
          BY <1>6, <2>2, <3>2, <4>1
        <5> QED
          BY <1>13, <5>1 DEF Propagating
      <4>2. CASE k # m
        <5>1. k \in Originals /\ Propagating(k)
          BY DEF Propagating
        <5>2. clauses[k].id # clauses[m].id
          BY <1>1, <4>2, <5>1 DEF FirstIdsUnique
        <5> QED
          BY <1>1, <1>13, <3>1, <4>2, <5>1, <5>2 DEF Confusable
      <4> QED
        BY <4>1, <4>2
    <3>3. \A k \in D \cup {n} : Cardinality(clauses[k].lits) # 2 =>
            /\ Entry(clauses[m].id, clauses[m].lits) # Entry(clauses[k].id, clauses[k].lits)
            /\ Entry(clauses[m].id, clauses[m].lits) # Entry(clauses[k + 1].id, clauses[k].lits)
      BY <3>2 DEF Entry
    <3>4. Entry(clauses[m].id, clauses[m].lits) \in proof'
      BY <3>1, <3>3 DEF PairStrengthened
    <3> QED
      BY <1>6, <2>2, <3>4
  <2> QED
    BY <2>1, <2>2
<1>14. ASSUME NEW k \in Fixed
       PROVE  Entry(unit_clauses[k], {k}) \in proof'
  <2>1. Entry(unit_clauses[k], {k}) \in proof
    BY <1>1 DEF UsedClausesInProof
  <2>2. \A m \in D \cup {n} : \A i, j : Entry(i, {k}) # Entry(j, clauses[m].lits)
    BY <1>3, UnitIsShort
  <2> QED
    <3> DEFINE e == Entry(unit_clauses[k], {k})
    <3>1. \A m \in D \cup {n} :
            e \notin {Entry(clauses[m].id, clauses[m].lits), Entry(clauses[m + 1].id, clauses[m].lits)}
      BY <2>2
    <3> HIDE DEF e
    <3>2. e \in proof'
      BY <2>1, <3>1 DEF PairStrengthened, e
    <3> QED
      BY <3>2 DEF e
<1>15. UsedClausesInProof'
  BY <1>2, <1>13, <1>14 DEF UsedClausesInProof, Fixed
<1> QED
  BY <1>7, <1>12, <1>15

-----------------------------------------------------------------------------
\* Variables have their types after a call (Become).
LEMMA BecomeTyped ==
  ASSUME NEW st \in LogState, NEW u \in BOOLEAN, Become(st, u), TypeOK, st.id >= Len(Formula),
         original_id' \in 0 .. Len(Formula), scan' \in 0 .. Len(st.clauses) \div 2
  PROVE  TypeOK'
<1>1. Confusable' \in BOOLEAN /\ confused \in BOOLEAN
  BY DEF Confusable, TypeOK
<1>2. (confused \/ Confusable') \in BOOLEAN
  BY <1>1
<1>3. /\ clause_id' = st.id /\ clauses' = st.clauses /\ unit_clauses' = st.units
      /\ proof' = st.proof /\ unsat' = u /\ confused' = (confused \/ Confusable')
      /\ unjustified' = st.unjustified /\ unknown' = st.unknown
  BY BecomeIs
<1>4. confused' \in BOOLEAN
  BY <1>2, <1>3, Zenon
<1>5. /\ clause_id' \in Nat /\ clauses' \in Seq(Clause) /\ unit_clauses' \in [Lit -> Nat]
      /\ proof' \in SUBSET Line /\ unknown' \in SUBSET Line /\ unjustified' \in SUBSET Nat
  BY <1>3 DEF LogState
<1>6. clause_id' >= Len(Formula) /\ scan' \in 0 .. Len(clauses') \div 2 /\ unsat' \in BOOLEAN
  BY <1>3
<1> QED
  BY <1>4, <1>5, <1>6 DEF TypeOK

\* A clause that holds still does with more literals.
LEMMA HoldsInLarger ==
  ASSUME NEW C, NEW D, C \subseteq D, NEW M, Holds(M, C)
  PROVE  Holds(M, D)
BY DEF Holds

\* A clause with a literal and its negation always holds.
LEMMA TautologyHolds ==
  ASSUME NEW C \in SUBSET Lit, Tautology(C), NEW M
  PROVE  Holds(M, C)
<1>1. PICK l \in C : -l \in C
  BY DEF Tautology
<1>2. l \in Int /\ l # 0
  BY ProofLogAssumption DEF Lit
<1>3. \A k \in C : (IF k > 0 THEN k \in M ELSE -k \notin M) => Holds(M, C)
  BY DEF Holds
<1>4. -(-l) = l /\ (l > 0 <=> ~(-l > 0))
  BY <1>2
<1> QED
  BY <1>1, <1>3, <1>4

\* What is left implies what was left before, if every irredundant clause has
\* one at most as large and units stay.
LEMMA LeftStays ==
  ASSUME \A l \in Lit : unit_clauses[l] # 0 => unit_clauses'[l] # 0,
         \A c \in Originals : ~clauses[c].redundant /\ ~clauses[c].garbage =>
           \E k \in Originals' : /\ ~clauses'[k].redundant /\ ~clauses'[k].garbage
                                 /\ clauses'[k].lits \subseteq clauses[c].lits
  PROVE  \A M : Left(M)' => Left(M)
<1> TAKE M
<1> HAVE Left(M)'
<1>1. ASSUME NEW c \in Originals, ~clauses[c].redundant, ~clauses[c].garbage
      PROVE  Holds(M, clauses[c].lits)
  <2>1. PICK k \in Originals' : /\ ~clauses'[k].redundant /\ ~clauses'[k].garbage
                                /\ clauses'[k].lits \subseteq clauses[c].lits
    BY <1>1
  <2>2. Holds(M, clauses'[k].lits)
    BY <2>1 DEF Left, Holds
  <2> QED
    BY <2>1, <2>2, HoldsInLarger
<1>2. \A l \in Fixed : Holds(M, {l})
  BY DEF Left, Fixed, Holds
<1> QED
  BY <1>1, <1>2 DEF Left

\* So the formula is still implied.
LEMMA StillKept ==
  ASSUME LogInv, original_id' = original_id, unsat => unsat', \A M : Left(M)' => Left(M)
  PROVE  IrredundantKept'
<1> SUFFICES ASSUME ~unsat', NEW n \in 1 .. original_id, NEW M \in SUBSET (1 .. MaxVar), Left(M)'
    PROVE  Holds(M, Formula[n])
  BY DEF IrredundantKept, Holds
<1> QED
  BY DEF LogInv, ClausesInProof, IrredundantKept

\* What is left when the clauses stay.
LEMMA LeftOfSame ==
  ASSUME clauses' = clauses, \A l \in Lit : unit_clauses[l] # 0 => unit_clauses'[l] # 0
  PROVE  \A M : Left(M)' => Left(M)
<1>1. Originals' = Originals
  BY DEF Originals
<1> QED
  BY <1>1, LeftStays

\* The invariant holds at first, with no clause stored.
LEMMA InitKeeps ==
  ASSUME Init
  PROVE  LogInv
<1>1. Len(Formula) \in Nat /\ Originals = {} /\ Fixed = {}
  BY ProofLogAssumption DEF Init, Originals, Fixed
<1>2. Len(clauses) \div 2 = 0 /\ clauses \in Seq(Clause)
  BY DEF Init
<1>3. TypeOK
  <2>1. {unsat, confused} \subseteq BOOLEAN /\ {proof, unknown} \subseteq SUBSET Line
    BY DEF Init
  <2>2. unit_clauses \in [Lit -> Nat] /\ unjustified \subseteq Nat
    BY DEF Init
  <2>3. /\ original_id \in 0 .. Len(Formula) /\ clause_id \in Nat /\ clause_id >= Len(Formula)
        /\ scan \in 0 .. Len(clauses) \div 2
    BY <1>1, <1>2 DEF Init
  <2> QED
    BY <1>2, <2>1, <2>2, <2>3 DEF TypeOK
<1>4. CopiesAgree /\ UsedClausesInProof /\ ~Confusable
  BY <1>1 DEF CopiesAgree, UsedClausesInProof, Confusable
<1>5. FirstIdsUnique
  BY <1>1 DEF FirstIdsUnique
<1>6. IrredundantKept
  BY DEF Init, IrredundantKept
<1> QED
  BY <1>3, <1>4, <1>5, <1>6 DEF LogInv, ClausesInProof

\* Nothing changes when nothing happens.
LEMMA StutterKeeps ==
  ASSUME LogInv, UNCHANGED vars
  PROVE  LogInv'
<1>1. /\ original_id' = original_id /\ clause_id' = clause_id /\ clauses' = clauses
      /\ unit_clauses' = unit_clauses /\ unsat' = unsat /\ scan' = scan /\ proof' = proof
      /\ unjustified' = unjustified /\ unknown' = unknown /\ confused' = confused
  BY DEF vars
<1>2. Originals' = Originals /\ Fixed' = Fixed /\ Confusable' = Confusable
  BY <1>1 DEF Originals, Fixed, Confusable, Propagating
<1>3. TypeOK' /\ CopiesAgree'
  BY <1>1, <1>2 DEF LogInv, ClausesInProof, TypeOK, CopiesAgree
<1>4. UsedClausesInProof' /\ FirstIdsUnique'
  BY <1>1, <1>2 DEF LogInv, ClausesInProof, UsedClausesInProof, FirstIdsUnique, Propagating
<1>5. IrredundantKept'
  BY <1>1, LeftOfSame, StillKept
<1> QED
  BY <1>1, <1>2, <1>3, <1>4, <1>5 DEF LogInv, ClausesInProof

\* A unit that is learned has the next id and a line in the proof
\* (learn_unit_clause).
LEMMA UnitKeeps ==
  ASSUME LogInv, NEW l \in Lit, NEW chain, Become(LearnUnit(Now, l, chain), FALSE), ~unsat,
         UNCHANGED <<original_id, scan>>
  PROVE  LogInv'
<1> DEFINE st == LearnUnit(Now, l, chain)
<1>1. /\ TypeOK /\ Now \in LogState /\ Now.id = clause_id /\ Now.units = unit_clauses
      /\ Now.clauses = clauses /\ Now.proof = proof
  BY NowTyped DEF LogInv, ClausesInProof, Now
<1>2. /\ clause_id \in Nat /\ clause_id >= Len(Formula) /\ Len(Formula) \in Nat
      /\ unit_clauses \in [Lit -> Nat] /\ original_id \in 0 .. Len(Formula)
      /\ scan \in 0 .. Len(clauses) \div 2
  BY <1>1, ProofLogAssumption DEF TypeOK
<1>3. /\ st \in LogState /\ st.id = clause_id + 1
      /\ st.units = [unit_clauses EXCEPT ![l] = clause_id + 1] /\ st.clauses = clauses
      /\ st.proof = proof \cup {Entry(clause_id + 1, {l})}
  BY <1>1, LearnUnitIs, SMTT(60)
<1>4. Become(st, FALSE)
  OBVIOUS
<1> HIDE DEF st
<1>5. /\ clause_id' = clause_id + 1 /\ clauses' = clauses
      /\ unit_clauses' = [unit_clauses EXCEPT ![l] = clause_id + 1]
      /\ proof' = proof \cup {Entry(clause_id + 1, {l})} /\ confused' = (confused \/ Confusable')
  BY <1>3, <1>4, BecomeIs
<1>6. TypeOK'
  <2>1. original_id' \in 0 .. Len(Formula) /\ scan' \in 0 .. Len(st.clauses) \div 2
    BY <1>2, <1>3
  <2>2. st.id >= Len(Formula) /\ FALSE \in BOOLEAN
    BY <1>2, <1>3
  <2> QED
    BY <1>1, <1>3, <1>4, <2>1, <2>2, BecomeTyped
<1>7. Fresh(clause_id + 1)
  BY <1>2, <1>5 DEF Fresh, TakenNow, TakenThen, Taken
<1>8. LosesNothing
  BY <1>5 DEF LosesNothing
<1>9. \A k \in Lit : \/ unit_clauses'[k] = unit_clauses[k]
                     \/ Fresh(unit_clauses'[k]) /\ Entry(unit_clauses'[k], {k}) \in proof'
  <2> TAKE k \in Lit
  <2>1. CASE k = l
    <3>1. unit_clauses'[l] = clause_id + 1
      BY <1>2, <1>5
    <3> QED
      BY <1>5, <1>7, <2>1, <3>1
  <2>2. CASE k # l
    BY <1>2, <1>5, <2>2
  <2> QED
    BY <2>1, <2>2
<1>10. CopiesAgree' /\ UsedClausesInProof' /\ FirstIdsUnique' /\ (Confusable' => confused')
  <2>1. clause_id <= clause_id' /\ original_id <= original_id'
    BY <1>2, <1>5
  <2> QED
    BY <1>5, <1>6, <1>8, <1>9, <2>1, ClausesStay
<1>11. \A k \in Lit : unit_clauses[k] # 0 => unit_clauses'[k] # 0
  BY <1>2, <1>5
<1>12. IrredundantKept'
  BY <1>5, <1>11, LeftOfSame, StillKept
<1> QED
  BY <1>6, <1>10, <1>12 DEF LogInv, ClausesInProof

\* The empty clause is derived under the next id (learn_empty_clause).
LEMMA EmptyKeeps ==
  ASSUME LogInv, NEW chain, Become(LearnEmpty(Now, chain), TRUE), UNCHANGED <<original_id, scan>>
  PROVE  LogInv'
<1> DEFINE st == LearnEmpty(Now, chain)
<1>1. /\ TypeOK /\ Now \in LogState /\ Now.id = clause_id /\ Now.units = unit_clauses
      /\ Now.clauses = clauses /\ Now.proof = proof
  BY NowTyped DEF LogInv, ClausesInProof, Now
<1>2. /\ clause_id \in Nat /\ clause_id >= Len(Formula) /\ Len(Formula) \in Nat
      /\ original_id \in 0 .. Len(Formula) /\ scan \in 0 .. Len(clauses) \div 2
  BY <1>1, ProofLogAssumption DEF TypeOK
<1>3. /\ st \in LogState /\ st.id = clause_id + 1 /\ st.units = unit_clauses
      /\ st.clauses = clauses /\ st.proof = proof \cup {Entry(clause_id + 1, {})}
  BY <1>1, NextDerivedIs, SMTT(60) DEF LearnEmpty
<1>4. Become(st, TRUE)
  OBVIOUS
<1> HIDE DEF st
<1>5. /\ clause_id' = clause_id + 1 /\ clauses' = clauses /\ unit_clauses' = unit_clauses
      /\ proof' = proof \cup {Entry(clause_id + 1, {})} /\ confused' = (confused \/ Confusable')
      /\ unsat'
  BY <1>3, <1>4, BecomeIs
<1>6. TypeOK'
  <2>1. original_id' \in 0 .. Len(Formula) /\ scan' \in 0 .. Len(st.clauses) \div 2
    BY <1>2, <1>3
  <2>2. st.id >= Len(Formula) /\ TRUE \in BOOLEAN
    BY <1>2, <1>3
  <2> QED
    BY <1>1, <1>3, <1>4, <2>1, <2>2, BecomeTyped
<1>7. LosesNothing
  BY <1>5 DEF LosesNothing
<1>8. clause_id <= clause_id' /\ original_id <= original_id'
  BY <1>2, <1>5
<1>9. CopiesAgree' /\ UsedClausesInProof' /\ FirstIdsUnique' /\ (Confusable' => confused')
  BY <1>5, <1>6, <1>7, <1>8, ClausesStay
<1>10. IrredundantKept'
  BY <1>5 DEF IrredundantKept
<1> QED
  BY <1>6, <1>9, <1>10 DEF LogInv, ClausesInProof

\* A turn of the scan marks a learned clause and its copy, or nothing
\* (eagerly_subsume_recently_learned_clauses).
LEMMA EagerlySubsumeKeeps ==
  ASSUME LogInv, EagerlySubsume
  PROVE  LogInv'
<1> DEFINE d == 2 * scan
           n == d - 1
           one == MarkGarbage(Now, d)
           two == MarkGarbage(one, n)
<1>1. /\ TypeOK /\ CopiesAgree /\ Now \in LogState /\ Now.id = clause_id /\ Now.units = unit_clauses
      /\ Now.clauses = clauses /\ Now.proof = proof
  BY NowTyped DEF LogInv, ClausesInProof, Now
<1>2. /\ clause_id \in Nat /\ clause_id >= Len(Formula) /\ Len(Formula) \in Nat /\ unsat \in BOOLEAN
      /\ original_id \in 0 .. Len(Formula) /\ scan \in 0 .. Len(clauses) \div 2 /\ scan > 0
      /\ Len(clauses) \in Nat /\ Len(clauses) % 2 = 0 /\ DOMAIN clauses = 1 .. Len(clauses)
      /\ scan' \in 0 .. Len(clauses) \div 2 /\ original_id' = original_id
  <2>1. scan > 0 /\ scan' \in {0, scan - 1} /\ original_id' = original_id
    BY DEF EagerlySubsume
  <2>2. Len(clauses) \in Nat /\ Len(clauses) % 2 = 0 /\ scan \in 0 .. Len(clauses) \div 2
    BY <1>1, EvenLength DEF TypeOK
  <2> QED
    BY <1>1, <2>1, <2>2, ProofLogAssumption DEF TypeOK
<1>3. n \in Originals /\ n + 1 = d /\ d \in DOMAIN clauses /\ n \in DOMAIN clauses
  <2>1. d \in 2 .. Len(clauses) /\ (d - 1) % 2 = 1
    BY <1>2
  <2> QED
    BY <1>2, <2>1 DEF Originals
<1>4. \/ Become(two, unsat) /\ clauses[d].redundant /\ ~clauses[d].garbage
      \/ Become(Now, unsat)
  BY DEF EagerlySubsume
<1> HIDE DEF n, d
<1>5. /\ n \in Nat /\ n # d /\ clauses[n] \in Clause /\ clauses[d] \in Clause
      /\ clauses[d].lits = clauses[n].lits /\ clauses[d].redundant = clauses[n].redundant
      /\ clauses[d].garbage = clauses[n].garbage
  BY <1>1, <1>3, PairIs
<1>6. /\ one \in LogState /\ one.id = clause_id /\ one.units = unit_clauses
      /\ one.clauses = [clauses EXCEPT ![d] = AsGarbage(clauses[d])]
      /\ \A e \in proof :
           \/ e \in one.proof
           \/ e = Entry(clauses[d].id, clauses[n].lits) /\ Cardinality(clauses[n].lits) # 2
  <2>1. d \in DOMAIN Now.clauses
    BY <1>1, <1>3
  <2>2. /\ one \in LogState /\ one.id = Now.id /\ one.units = Now.units
        /\ one.clauses = [Now.clauses EXCEPT ![d] = AsGarbage(Now.clauses[d])]
        /\ \A e \in Now.proof :
             \/ e \in one.proof
             \/ e = Entry(Now.clauses[d].id, Now.clauses[d].lits) /\ Cardinality(Now.clauses[d].lits) # 2
    BY <1>1, <2>1, MarkGarbageIs, Zenon
  <2> HIDE DEF one
  <2> QED
    BY <1>1, <1>5, <2>2
<1> HIDE DEF one
<1>7. DOMAIN one.clauses = DOMAIN clauses /\ one.clauses[n] = clauses[n]
  BY <1>1, <1>3, <1>5, <1>6
<1>8. /\ two \in LogState /\ two.id = clause_id /\ two.units = unit_clauses
      /\ two.clauses = [one.clauses EXCEPT ![n] = AsGarbage(clauses[n])]
      /\ \A e \in one.proof :
           \/ e \in two.proof
           \/ e = Entry(clauses[n].id, clauses[n].lits) /\ Cardinality(clauses[n].lits) # 2
  <2>1. n \in DOMAIN one.clauses
    BY <1>3, <1>7
  <2>2. /\ two \in LogState /\ two.id = one.id /\ two.units = one.units
        /\ two.clauses = [one.clauses EXCEPT ![n] = AsGarbage(one.clauses[n])]
        /\ \A e \in one.proof :
             \/ e \in two.proof
             \/ e = Entry(one.clauses[n].id, one.clauses[n].lits) /\ Cardinality(one.clauses[n].lits) # 2
    BY <1>6, <2>1, MarkGarbageIs, Zenon
  <2> HIDE DEF two
  <2> QED
    BY <1>6, <1>7, <2>2
<1> HIDE DEF two
<1>9. /\ DOMAIN two.clauses = DOMAIN clauses
      /\ two.clauses[n] = AsGarbage(clauses[n]) /\ two.clauses[d] = AsGarbage(clauses[d])
      /\ \A m \in DOMAIN clauses \ {n, d} : two.clauses[m] = clauses[m]
  BY <1>1, <1>3, <1>5, <1>6, <1>7, <1>8
<1>10. CASE Become(two, unsat) /\ clauses[d].redundant /\ ~clauses[d].garbage
  <2>1. /\ clause_id' = clause_id /\ clauses' = two.clauses /\ unit_clauses' = unit_clauses
        /\ proof' = two.proof /\ confused' = (confused \/ Confusable') /\ unsat' = unsat
    BY <1>2, <1>8, <1>10, BecomeIs
  <2>2. TypeOK'
    <3>1. Len(two.clauses) = Len(clauses)
      BY <1>2, <1>8, <1>9 DEF LogState
    <3>2. /\ original_id' \in 0 .. Len(Formula) /\ scan' \in 0 .. Len(two.clauses) \div 2
          /\ two.id >= Len(Formula)
      BY <1>2, <1>8, <3>1
    <3> QED
      BY <1>1, <1>2, <1>8, <1>10, <3>2, BecomeTyped
  <2>3. PairMarked(n)
    <3>1. \A e \in proof :
            \/ e \in proof'
            \/ /\ Cardinality(clauses[n].lits) # 2
               /\ e \in {Entry(clauses[n].id, clauses[n].lits), Entry(clauses[n + 1].id, clauses[n].lits)}
      BY <1>3, <1>6, <1>8, <2>1
    <3> QED
      BY <1>3, <1>9, <2>1, <3>1 DEF PairMarked
  <2>4. CopiesAgree' /\ UsedClausesInProof' /\ FirstIdsUnique' /\ (Confusable' => confused')
    BY <1>2, <1>3, <1>5, <1>10, <2>1, <2>2, <2>3, MarkedPair
  <2>5. \A c \in Originals : ~clauses[c].redundant /\ ~clauses[c].garbage =>
           \E k \in Originals' : /\ ~clauses'[k].redundant /\ ~clauses'[k].garbage
                                 /\ clauses'[k].lits \subseteq clauses[c].lits
    <3> SUFFICES ASSUME NEW c \in Originals, ~clauses[c].redundant, ~clauses[c].garbage
        PROVE  c \in Originals' /\ clauses'[c] = clauses[c]
      OBVIOUS
    <3>1. c \in DOMAIN clauses /\ c # n /\ c # d
      BY <1>1, <1>3, <1>5, <1>10, PairIs
    <3> QED
      BY <1>9, <2>1, <3>1 DEF Originals
  <2>6. IrredundantKept'
    BY <1>2, <2>1, <2>5, LeftStays, StillKept
  <2> QED
    BY <2>2, <2>4, <2>6 DEF LogInv, ClausesInProof
<1>11. CASE Become(Now, unsat)
  <2>1. /\ clause_id' = clause_id /\ clauses' = clauses /\ unit_clauses' = unit_clauses
        /\ proof' = proof /\ confused' = (confused \/ Confusable') /\ unsat' = unsat
    BY <1>1, <1>2, <1>11, BecomeIs
  <2>2. TypeOK'
    BY <1>1, <1>2, <1>11, BecomeTyped
  <2>3. LosesNothing /\ clause_id <= clause_id' /\ original_id <= original_id'
    BY <1>2, <2>1 DEF LosesNothing
  <2>4. CopiesAgree' /\ UsedClausesInProof' /\ FirstIdsUnique' /\ (Confusable' => confused')
    BY <2>1, <2>2, <2>3, ClausesStay
  <2>5. IrredundantKept'
    BY <1>2, <2>1, LeftOfSame, StillKept
  <2> QED
    BY <2>2, <2>4, <2>5 DEF LogInv, ClausesInProof
<1> QED
  BY <1>4, <1>10, <1>11

\* What is left when a pair is added.
LEMMA LeftOfMore ==
  ASSUME NEW k, Originals' = Originals \cup {k}, \A n \in Originals : clauses'[n] = clauses[n],
         \A l \in Lit : unit_clauses[l] # 0 => unit_clauses'[l] # 0
  PROVE  \A M : Left(M)' => Left(M)
BY LeftStays

\* A clause and its copy are learned under the two next ids, with a line each
\* (new_learned_redundant_clause and its copy).
LEMMA LearnClauseKeeps ==
  ASSUME LogInv, NEW C \in Clauses, LearnClause(C)
  PROVE  LogInv'
<1> DEFINE c(i) == [lits |-> C, id |-> i, redundant |-> TRUE, garbage |-> FALSE]
           i == clause_id + 1
           j == clause_id + 2
           one == NewClause(Now, C, TRUE)
           two == NewClause(one, C, TRUE)
           first == Derived(two, i, C, Some)
           st == Derived(first, j, C, Some)
<1>1. /\ TypeOK /\ CopiesAgree /\ Now \in LogState /\ Now.id = clause_id /\ Now.units = unit_clauses
      /\ Now.clauses = clauses /\ Now.proof = proof
  BY NowTyped DEF LogInv, ClausesInProof, Now
<1>2. /\ clause_id \in Nat /\ clause_id >= Len(Formula) /\ Len(Formula) \in Nat
      /\ original_id \in 0 .. Len(Formula) /\ scan \in 0 .. Len(clauses) \div 2
      /\ Len(clauses) \in Nat /\ clauses \in Seq(Clause) /\ i \in Nat /\ j \in Nat
  BY <1>1, ProofLogAssumption DEF TypeOK
<1>3. C \in SUBSET Lit /\ Cardinality(C) > 1 /\ ~Tautology(C) /\ ~unsat
  BY DEF Clauses, LearnClause, Searching
<1>4. scan' = Len(clauses) \div 2 /\ original_id' = original_id /\ Become(st, FALSE)
  BY DEF LearnClause
<1>5. /\ one \in LogState /\ one.id = i /\ one.units = unit_clauses /\ one.proof = proof
      /\ one.clauses = Append(clauses, c(i))
  BY <1>1, <1>3, NewClauseIs
<1> HIDE DEF one
<1>6. /\ two \in LogState /\ two.id = j /\ two.units = unit_clauses /\ two.proof = proof
      /\ two.clauses = Append(Append(clauses, c(i)), c(j))
  <2>1. one.id + 1 = j
    BY <1>2, <1>5
  <2> QED
    BY <1>3, <1>5, <2>1, NewClauseIs, ZenonT(60)
<1> HIDE DEF two
<1>7. /\ first \in LogState /\ first.id = j /\ first.units = unit_clauses
      /\ first.clauses = two.clauses /\ first.proof = proof \cup {Entry(i, C)}
  <2>1. /\ first \in LogState /\ first.id = two.id /\ first.units = two.units
        /\ first.clauses = two.clauses /\ first.proof = two.proof \cup {Entry(i, C)}
    <3> HIDE DEF i, j
    <3>1. i \in Nat /\ C \in SUBSET Lit /\ two \in LogState
      BY <1>2, <1>3, <1>6
    <3> QED
      BY <3>1, DerivedIs
  <2> HIDE DEF first
  <2> QED
    BY <1>6, <2>1
<1> HIDE DEF first
<1>8. /\ st \in LogState /\ st.id = j /\ st.units = unit_clauses
      /\ st.clauses = two.clauses /\ st.proof = proof \cup {Entry(i, C), Entry(j, C)}
  <2>1. /\ st \in LogState /\ st.id = first.id /\ st.units = first.units
        /\ st.clauses = first.clauses /\ st.proof = first.proof \cup {Entry(j, C)}
    <3> HIDE DEF i, j
    <3>1. j \in Nat /\ C \in SUBSET Lit /\ first \in LogState
      BY <1>2, <1>3, <1>7
    <3> QED
      BY <3>1, DerivedIs
  <2> HIDE DEF st
  <2> QED
    BY <1>7, <2>1
<1> HIDE DEF st
<1>9. c(i) \in Clause /\ c(j) \in Clause
  BY <1>2, <1>3 DEF Clause
<1>10. c(i).id = i /\ c(i).lits = C /\ c(i) = [c(j) EXCEPT !.id = c(i).id]
  <2>1. /\ c(i).id = i /\ c(i).lits = c(j).lits /\ c(i).lits = C
        /\ c(i).redundant = c(j).redundant /\ c(i).garbage = c(j).garbage
    OBVIOUS
  <2> HIDE DEF c
  <2> QED
    BY <1>9, <2>1, SameButId
<1> HIDE DEF c
<1>11. PairAt(clauses, st.clauses, c(i), c(j))
  BY <1>2, <1>6, <1>8, <1>9, AppendedPair, SMTT(60)
<1>12. /\ clause_id' = j /\ clauses' = st.clauses /\ unit_clauses' = unit_clauses
       /\ proof' = proof \cup {Entry(i, C), Entry(j, C)} /\ confused' = (confused \/ Confusable')
  BY <1>4, <1>8, BecomeIs
<1>13. TypeOK'
  <2>1. Len(st.clauses) = Len(clauses) + 2
    BY <1>11 DEF PairAt
  <2>2. /\ original_id' \in 0 .. Len(Formula) /\ scan' \in 0 .. Len(st.clauses) \div 2
        /\ st.id >= Len(Formula) /\ FALSE \in BOOLEAN
    BY <1>2, <1>4, <1>8, <2>1
  <2> QED
    BY <1>1, <1>4, <1>8, <2>2, BecomeTyped
<1>14. Fresh(c(i).id)
  BY <1>2, <1>4, <1>10, <1>12 DEF Fresh, TakenNow, TakenThen, Taken
<1>15. /\ LosesNothing /\ clause_id <= clause_id' /\ original_id <= original_id'
       /\ Entry(c(i).id, c(i).lits) \in proof' /\ PairAt(clauses, clauses', c(i), c(j))
  BY <1>2, <1>4, <1>10, <1>11, <1>12 DEF LosesNothing
<1>16. /\ CopiesAgree' /\ UsedClausesInProof' /\ FirstIdsUnique' /\ (Confusable' => confused')
       /\ Originals' = Originals \cup {Len(clauses) + 1}
       /\ \A n \in Originals : clauses'[n] = clauses[n]
  BY <1>3, <1>9, <1>10, <1>12, <1>13, <1>14, <1>15, PairAdded
<1>17. IrredundantKept'
  BY <1>3, <1>4, <1>12, <1>16, LeftOfMore, StillKept
<1> QED
  BY <1>13, <1>16, <1>17 DEF LogInv, ClausesInProof

\* The next clause of the formula is implied as well, if what is left implies it.
LEMMA NextKept ==
  ASSUME LogInv, TypeOK', original_id' = original_id + 1, unsat => unsat', \A M : Left(M)' => Left(M),
         \A M : ~unsat' /\ Left(M)' => Holds(M, Formula[original_id + 1])
  PROVE  IrredundantKept'
<1> SUFFICES ASSUME ~unsat', NEW n \in 1 .. original_id + 1, NEW M \in SUBSET (1 .. MaxVar), Left(M)'
    PROVE  Holds(M, Formula[n])
  BY DEF IrredundantKept, Holds
<1>1. CASE n = original_id + 1
  BY <1>1
<1>2. CASE n # original_id + 1
  <2>1. n \in 1 .. original_id
    BY <1>2 DEF LogInv, ClausesInProof, TypeOK
  <2> QED
    BY <2>1 DEF LogInv, ClausesInProof, IrredundantKept
<1> QED
  BY <1>1, <1>2

\* The ids that the next clause of the formula can get are free.
LEMMA GivenIsFresh ==
  ASSUME TypeOK, original_id < Len(Formula), original_id' = original_id + 1, clause_id' >= clause_id,
         clause_id' \in Nat
  PROVE  /\ Fresh(original_id + 1)
         /\ clause_id' > clause_id => Fresh(clause_id + 1)
         /\ original_id + 1 \in 1 .. Len(Formula) /\ original_id + 1 # clause_id + 1
         /\ original_id' \in 0 .. Len(Formula)
<1>1. /\ clause_id \in Nat /\ clause_id >= Len(Formula) /\ Len(Formula) \in Nat /\ original_id \in Nat
  BY ProofLogAssumption DEF TypeOK
<1> QED
  BY <1>1 DEF Fresh, TakenNow, TakenThen, Taken

\* A clause of the formula that gives a unit or nothing leaves the list as it is.
LEMMA GivenKeeps ==
  ASSUME LogInv, NEW st \in LogState, NEW u \in BOOLEAN, Become(st, u), unsat => u,
         original_id < Len(Formula), original_id' = original_id + 1, scan' = scan,
         st.clauses = clauses, st.id \in {clause_id, clause_id + 1},
         \A e \in proof : e \in st.proof \/ e.id = original_id + 1,
         \A l \in Lit :
           \/ st.units[l] = unit_clauses[l]
           \/ /\ unit_clauses[l] = 0 /\ Entry(st.units[l], {l}) \in st.proof
              /\ \/ st.units[l] = original_id + 1
                 \/ st.units[l] = clause_id + 1 /\ st.id = clause_id + 1,
         \A M : ~u /\ Left(M)' => Holds(M, Formula[original_id + 1])
  PROVE  LogInv'
<1>1. /\ TypeOK /\ clause_id \in Nat /\ clause_id >= Len(Formula) /\ Len(Formula) \in Nat
      /\ original_id \in Nat /\ scan \in 0 .. Len(clauses) \div 2 /\ unit_clauses \in [Lit -> Nat]
  BY ProofLogAssumption, SMTT(60) DEF LogInv, ClausesInProof, TypeOK
<1>2. /\ clause_id' = st.id /\ clauses' = clauses /\ unit_clauses' = st.units
      /\ proof' = st.proof /\ unsat' = u /\ confused' = (confused \/ Confusable')
  BY BecomeIs
<1>3. clause_id' >= clause_id /\ clause_id' \in Nat /\ original_id <= original_id'
  BY <1>1, <1>2
<1>4. /\ Fresh(original_id + 1) /\ (st.id = clause_id + 1 => Fresh(clause_id + 1))
      /\ original_id' \in 0 .. Len(Formula) /\ original_id + 1 \in Nat /\ clause_id + 1 \in Nat
  BY <1>1, <1>2, <1>3, GivenIsFresh
<1>5. TypeOK'
  <2>1. st.id >= Len(Formula) /\ scan' \in 0 .. Len(st.clauses) \div 2
    BY <1>1
  <2> QED
    BY <1>1, <1>4, <2>1, BecomeTyped
<1>6. LosesNothing
  BY <1>2, <1>4 DEF LosesNothing, Fresh
<1>7. \A l \in Lit : \/ unit_clauses'[l] = unit_clauses[l]
                     \/ Fresh(unit_clauses'[l]) /\ Entry(unit_clauses'[l], {l}) \in proof'
  BY <1>2, <1>4
<1>8. CopiesAgree' /\ UsedClausesInProof' /\ FirstIdsUnique' /\ (Confusable' => confused')
  BY <1>2, <1>3, <1>5, <1>6, <1>7, ClausesStay
<1>9. \A l \in Lit : unit_clauses[l] # 0 => unit_clauses'[l] # 0
  BY <1>2
<1>10. IrredundantKept'
  BY <1>2, <1>5, <1>9, LeftOfSame, NextKept
<1> QED
  BY <1>5, <1>8, <1>10 DEF LogInv, ClausesInProof

\* A clause of the formula that is stored with its copy.
LEMMA GivenPairKeeps ==
  ASSUME LogInv, NEW st \in LogState, NEW id \in Nat, NEW C \in SUBSET Lit,
         Become(Stored(st, id, C), FALSE), ~unsat,
         Cardinality(C) > 1, ~Tautology(C), C \subseteq Formula[original_id + 1],
         original_id < Len(Formula), original_id' = original_id + 1, scan' = scan,
         st.clauses = clauses, st.units = unit_clauses,
         \/ id = original_id + 1 /\ st.id = clause_id
         \/ id = clause_id + 1 /\ st.id = clause_id + 1,
         \A e \in proof : e \in st.proof \/ e.id = original_id + 1,
         Entry(id, C) \in st.proof
  PROVE  LogInv'
<1> DEFINE c(i) == [lits |-> C, id |-> i, redundant |-> FALSE, garbage |-> FALSE]
           r == Stored(st, id, C)
           a == c(id)
           b == c(st.id + 2)
<1>1. /\ TypeOK /\ clause_id \in Nat /\ clause_id >= Len(Formula) /\ Len(Formula) \in Nat
      /\ original_id \in Nat /\ scan \in 0 .. Len(clauses) \div 2 /\ Len(clauses) \in Nat
  BY ProofLogAssumption, SMTT(60) DEF LogInv, ClausesInProof, TypeOK
<1>2. /\ r \in LogState /\ r.id = st.id + 1 /\ r.units = unit_clauses /\ r.proof = st.proof
      /\ PairAt(clauses, r.clauses, a, b)
  BY StoredIs
<1>3. a \in Clause /\ b \in Clause
  <2>1. st.id + 2 \in Nat
    BY DEF LogState
  <2> QED
    BY <2>1 DEF Clause
<1>4. /\ a.id = id /\ a.lits = C /\ a.lits = b.lits /\ a.redundant = b.redundant
      /\ a.garbage = b.garbage /\ ~a.redundant /\ ~a.garbage
  OBVIOUS
<1>5. Become(r, FALSE)
  OBVIOUS
<1> HIDE DEF c, r, a, b
<1>6. a = [b EXCEPT !.id = a.id]
  BY <1>3, <1>4, SameButId
<1>7. /\ clause_id' = st.id + 1 /\ clauses' = r.clauses /\ unit_clauses' = unit_clauses
      /\ proof' = st.proof /\ unsat' = FALSE /\ confused' = (confused \/ Confusable')
  BY <1>2, <1>5, BecomeIs
<1>8. clause_id' > clause_id /\ clause_id' \in Nat /\ original_id <= original_id'
  BY <1>1, <1>7, SMTT(60)
<1>9. Fresh(original_id + 1) /\ Fresh(clause_id + 1) /\ original_id' \in 0 .. Len(Formula)
  BY <1>1, <1>8, GivenIsFresh
<1>10. TypeOK'
  <2>1. Len(r.clauses) = Len(clauses) + 2
    BY <1>2 DEF PairAt
  <2>2. r.id >= Len(Formula) /\ scan' \in 0 .. Len(r.clauses) \div 2 /\ FALSE \in BOOLEAN
    BY <1>1, <1>2, <1>7, <1>8, <2>1, SMTT(60)
  <2> QED
    BY <1>1, <1>2, <1>5, <1>9, <2>2, BecomeTyped
<1>11. LosesNothing /\ Fresh(a.id) /\ Entry(a.id, a.lits) \in proof'
  BY <1>4, <1>7, <1>9 DEF LosesNothing, Fresh
<1>12. /\ CopiesAgree' /\ UsedClausesInProof' /\ FirstIdsUnique' /\ (Confusable' => confused')
       /\ Originals' = Originals \cup {Len(clauses) + 1}
       /\ \A n \in Originals : clauses'[n] = clauses[n]
       /\ clauses'[Len(clauses) + 1] = a
  <2>1. PairAt(clauses, clauses', a, b) /\ clause_id <= clause_id'
    BY <1>1, <1>2, <1>7, SMTT(60)
  <2>2. Cardinality(a.lits) > 1 /\ ~Tautology(a.lits)
    BY <1>4
  <2> QED
    BY <1>3, <1>6, <1>7, <1>8, <1>10, <1>11, <2>1, <2>2, PairAdded
<1>13. \A M : Left(M)' => Left(M)
  BY <1>7, <1>12, LeftOfMore
<1>14. \A M : Left(M)' => Holds(M, Formula[original_id + 1])
  <2> SUFFICES ASSUME NEW M, Left(M)' PROVE Holds(M, Formula[original_id + 1])
    OBVIOUS
  <2>1. Holds(M, C)
    BY <1>4, <1>12 DEF Left, Holds
  <2> QED
    BY <2>1, HoldsInLarger
<1>15. IrredundantKept'
  BY <1>10, <1>13, <1>14, NextKept
<1> QED
  BY <1>10, <1>12, <1>15 DEF LogInv, ClausesInProof

\* A clause of the formula is dropped, empty, a unit or stored
\* (add_new_original_clause).
LEMMA AddNewOriginalClauseKeeps ==
  ASSUME LogInv, AddNewOriginalClause
  PROVE  LogInv'
<1> DEFINE id == original_id + 1
           lits == Formula[id]
           given == Added(Now, id, lits)
           kept == lits \ Falsified(lits)
           new == Shortened(given, id, lits)
           l == CHOOSE k \in kept : TRUE
           dropped == Deleted(given, id, lits)
           unit == [new.st EXCEPT !.units = [@ EXCEPT ![l] = new.id]]
<1>1. /\ TypeOK /\ Now \in LogState /\ Now.id = clause_id /\ Now.units = unit_clauses
      /\ Now.clauses = clauses /\ Now.proof = proof
  BY NowTyped DEF LogInv, ClausesInProof, Now
<1>2. /\ clause_id \in Nat /\ clause_id >= Len(Formula) /\ Len(Formula) \in Nat
      /\ original_id \in Nat /\ original_id < Len(Formula) /\ unit_clauses \in [Lit -> Nat]
      /\ original_id' = original_id + 1 /\ scan' = scan /\ unsat \in BOOLEAN
  BY <1>1, ProofLogAssumption, SMTT(60) DEF TypeOK, AddNewOriginalClause
<1>3. /\ id \in Nat /\ id # clause_id + 1 /\ lits \in SUBSET Lit /\ kept \in SUBSET Lit
      /\ kept \subseteq lits
  BY <1>2, ProofLogAssumption
<1>4. \/ (unsat \/ Tautology(lits) \/ lits \cap Fixed # {}) /\ Become(dropped, unsat)
      \/ /\ ~unsat /\ ~Tautology(lits) /\ lits \cap Fixed = {}
         /\ \/ kept = {} /\ Become(new.st, TRUE)
            \/ Cardinality(kept) = 1 /\ Become(unit, FALSE)
            \/ Cardinality(kept) > 1 /\ Become(Stored(new.st, new.id, kept), FALSE)
  BY ZenonT(60) DEF AddNewOriginalClause
<1>5. Cardinality(kept) \in Nat /\ IsFiniteSet(kept) /\ (Cardinality(kept) = 0 <=> kept = {})
  BY <1>3, ClauseFinite
<1> HIDE DEF lits, kept
<1>6. /\ given \in LogState /\ given.id = clause_id /\ given.clauses = clauses
      /\ given.units = unit_clauses /\ given.proof = proof \cup {Entry(id, lits)}
  <2> HIDE DEF id
  <2> QED
    BY <1>1, <1>3, AddedIs
<1> HIDE DEF given
<1>7. CASE (unsat \/ Tautology(lits) \/ lits \cap Fixed # {}) /\ Become(dropped, unsat)
  <2>1. /\ dropped \in LogState /\ dropped.id = given.id /\ dropped.clauses = given.clauses
        /\ dropped.units = given.units
        /\ \A e \in given.proof : e = Entry(id, lits) \/ e \in dropped.proof
    <3> HIDE DEF id
    <3> QED
      BY <1>3, <1>6, DeletedIs
  <2> HIDE DEF dropped
  <2>2. \A e \in proof : e \in dropped.proof \/ e.id = id
    BY <1>6, <2>1 DEF Entry
  <2>3. ASSUME NEW M, ~unsat, Left(M)'
        PROVE  Holds(M, lits)
    <3>1. CASE Tautology(lits)
      BY <1>3, <3>1, TautologyHolds
    <3>2. CASE lits \cap Fixed # {}
      <4>1. PICK k \in lits : k \in Lit /\ unit_clauses[k] # 0
        BY <3>2 DEF Fixed
      <4>2. unit_clauses' = unit_clauses
        BY <1>2, <1>6, <1>7, <2>1, BecomeIs
      <4>3. Holds(M, {k})
        BY <2>3, <4>1, <4>2 DEF Left, Fixed, Holds
      <4> QED
        BY <4>1, <4>3, HoldsInLarger
    <3> QED
      BY <1>7, <2>3, <3>1, <3>2
  <2> QED
    BY <1>2, <1>6, <1>7, <2>1, <2>2, <2>3, GivenKeeps DEF lits
<1>8. CASE /\ ~unsat /\ ~Tautology(lits) /\ lits \cap Fixed = {}
           /\ \/ kept = {} /\ Become(new.st, TRUE)
              \/ Cardinality(kept) = 1 /\ Become(unit, FALSE)
              \/ Cardinality(kept) > 1 /\ Become(Stored(new.st, new.id, kept), FALSE)
  <2>1. /\ new.st \in LogState /\ new.id \in Nat
        /\ \/ new.id = id /\ new.st.id = given.id
           \/ new.id = given.id + 1 /\ new.st.id = given.id + 1
        /\ new.st.clauses = given.clauses /\ new.st.units = given.units
        /\ Entry(new.id, lits \ Falsified(lits)) \in new.st.proof
        /\ \A e \in given.proof : e \in new.st.proof \/ e = Entry(id, lits)
    <3>1. id # given.id + 1 /\ Entry(id, lits) \in given.proof
      BY <1>3, <1>6
    <3> HIDE DEF id
    <3> QED
      BY <1>1, <1>3, <1>6, <3>1, ShortenedIs
  <2> HIDE DEF new
  <2>2. /\ new.st \in LogState /\ new.id \in Nat
        /\ new.st.clauses = clauses /\ new.st.units = unit_clauses
        /\ Entry(new.id, kept) \in new.st.proof
        /\ \/ new.id = id /\ new.st.id = clause_id
           \/ new.id = clause_id + 1 /\ new.st.id = clause_id + 1
    BY <1>6, <2>1 DEF kept
  <2>3. \A e \in proof : e \in new.st.proof \/ e.id = id
    BY <1>6, <2>1 DEF Entry
  <2>4. CASE kept = {}
    <3>1. Become(new.st, TRUE)
      <4>1. Cardinality(kept) # 1 /\ ~(Cardinality(kept) > 1)
        BY <1>5, <2>4
      <4> QED
        BY <1>8, <4>1, Zenon
    <3>2. new.st.id \in {clause_id, clause_id + 1} /\ TRUE \in BOOLEAN
      BY <2>2
    <3> QED
      BY <1>2, <2>2, <2>3, <3>1, <3>2, GivenKeeps
  <2>5. CASE Cardinality(kept) = 1
    <3>1. kept # {} /\ \E k : kept = {k}
      BY <1>5, <2>5, FS_Singleton
    <3>2. kept = {l} /\ l \in Lit
      BY <1>3, <3>1
    <3> HIDE DEF l
    <3>3. Become(unit, FALSE)
      <4>1. kept # {} /\ ~(Cardinality(kept) > 1)
        BY <2>5, <3>1
      <4> QED
        BY <1>8, <4>1, Zenon
    <3>4. unit_clauses[l] = 0
      BY <1>3, <1>8, <3>2 DEF Fixed
    <3>5. [new.st.units EXCEPT ![l] = new.id] \in [Lit -> Nat]
      BY <1>2, <2>2, <3>2
    <3>6. /\ unit \in LogState /\ unit.units = [new.st.units EXCEPT ![l] = new.id]
          /\ unit.id = new.st.id /\ unit.clauses = new.st.clauses /\ unit.proof = new.st.proof
      BY <2>2, <3>5 DEF LogState
    <3> HIDE DEF unit
    <3>7. /\ unit.clauses = clauses /\ unit.id \in {clause_id, clause_id + 1}
          /\ \A e \in proof : e \in unit.proof \/ e.id = original_id + 1
      BY <2>2, <2>3, <3>6
    <3>8. \A k \in Lit :
           \/ unit.units[k] = unit_clauses[k]
           \/ /\ unit_clauses[k] = 0 /\ Entry(unit.units[k], {k}) \in unit.proof
              /\ \/ unit.units[k] = original_id + 1
                 \/ unit.units[k] = clause_id + 1 /\ unit.id = clause_id + 1
      <4> TAKE k \in Lit
      <4>1. CASE k = l
        <5>1. unit.units[k] = new.id
          BY <1>2, <2>2, <3>6, <4>1
        <5> QED
          BY <2>2, <3>2, <3>4, <3>6, <4>1, <5>1
      <4>2. CASE k # l
        BY <1>2, <2>2, <3>6, <4>2
      <4> QED
        BY <4>1, <4>2
    <3>9. ASSUME NEW M, Left(M)'
          PROVE  Holds(M, Formula[original_id + 1])
      <4>1. unit_clauses'[l] # 0
        <5>1. unit_clauses'[l] = new.id
          BY <1>2, <2>2, <3>2, <3>3, <3>6, BecomeIs, ZenonT(60)
        <5> QED
          BY <1>2, <2>2, <5>1
      <4>2. Holds(M, {l})
        BY <3>2, <3>9, <4>1 DEF Left, Fixed, Holds
      <4>3. {l} \subseteq Formula[original_id + 1]
        BY <1>3, <3>2 DEF lits
      <4> QED
        BY <4>2, <4>3, HoldsInLarger
    <3> QED
      BY <1>2, <1>8, <3>3, <3>6, <3>7, <3>8, <3>9, GivenKeeps
  <2>6. CASE Cardinality(kept) > 1
    <3>1. Become(Stored(new.st, new.id, kept), FALSE)
      <4>1. kept # {} /\ Cardinality(kept) # 1
        BY <1>5, <2>6
      <4> QED
        BY <1>8, <4>1, Zenon
    <3>2. ~Tautology(kept) /\ kept \subseteq Formula[original_id + 1]
      BY <1>3, <1>8 DEF Tautology, lits
    <3> QED
      BY <1>2, <1>3, <1>8, <2>2, <2>3, <2>6, <3>1, <3>2, GivenPairKeeps
  <2> QED
    BY <1>5, <2>4, <2>5, <2>6
<1> QED
  BY <1>4, <1>7, <1>8

\* A clause and its copy lose literals, and a pair they then subsume is marked,
\* but one that is irredundant makes them so (on_the_fly_strengthen2,
\* otfs_subsume_clause).
LEMMA OnTheFlyStrengthenKeeps ==
  ASSUME LogInv, NEW n \in Originals, NEW l \in Lit, OnTheFlyStrengthen(n, l)
  PROVE  LogInv'
<1> DEFINE C == clauses[n].lits \ ({l} \cup Falsified(clauses[n].lits))
           st == OtfsStrengthened(n, C)
           x == Renewed(clauses[n], C, clause_id + 1)
           y == Renewed(clauses[n + 1], C, clause_id + 2)
<1>1. /\ TypeOK /\ CopiesAgree /\ clause_id \in Nat /\ clause_id >= Len(Formula)
      /\ Len(Formula) \in Nat /\ original_id \in 0 .. Len(Formula)
      /\ Len(clauses) \in Nat /\ scan \in 0 .. Len(clauses) \div 2 /\ clauses \in Seq(Clause)
      /\ clause_id + 1 \in Nat /\ clause_id + 2 \in Nat
  BY ProofLogAssumption, SMTT(60) DEF LogInv, ClausesInProof, TypeOK
<1>2. /\ ~unsat /\ Cardinality(clauses[n].lits) > 2 /\ ~clauses[n].garbage /\ l \in clauses[n].lits
      /\ Cardinality(C) > 1 /\ original_id' = original_id /\ scan' = scan
      /\ \/ Become(st, FALSE)
         \/ \E d \in Originals \ {n} :
              /\ C \subseteq st.clauses[d].lits /\ ~st.clauses[d].garbage
              /\ -l \in st.clauses[d].lits
              /\ Become(OtfsSubsumed(st, n, d), FALSE)
  BY DEF OnTheFlyStrengthen, Searching, Clauses
<1>3. /\ n \in Nat /\ n + 1 \in DOMAIN clauses /\ n \in DOMAIN clauses /\ n + 1 \notin Originals
      /\ clauses[n] \in Clause /\ clauses[n + 1] \in Clause
      /\ clauses[n] = [clauses[n + 1] EXCEPT !.id = clauses[n].id]
  BY <1>1, PairIs DEF CopiesAgree
<1>4. C \in SUBSET Lit /\ C \in SUBSET (clauses[n].lits \ {l}) /\ C \subseteq clauses[n].lits
  BY <1>3 DEF Clause
<1> HIDE DEF C
<1>5. /\ st \in LogState /\ st.id = clause_id + 2 /\ st.units = unit_clauses
      /\ DOMAIN st.clauses = DOMAIN clauses /\ st.clauses[n] = x /\ st.clauses[n + 1] = y
      /\ \A m \in DOMAIN clauses \ {n, n + 1} : st.clauses[m] = clauses[m]
      /\ \A e \in proof \cup {Entry(clause_id + 1, C)} :
           e \in st.proof \/ e \in {Entry(clauses[n].id, clauses[n].lits),
                                    Entry(clauses[n + 1].id, clauses[n].lits)}
  BY <1>1, <1>4, OtfsStrengthenedIs
<1> HIDE DEF st
<1>6. /\ x \in Clause /\ x.lits = C /\ x.id = clause_id + 1
      /\ x.redundant = clauses[n].redundant /\ x.garbage = clauses[n].garbage
      /\ x = [y EXCEPT !.id = clause_id + 1]
      /\ Irredundant(x) \in Clause /\ Irredundant(x).lits = C /\ Irredundant(x).id = clause_id + 1
      /\ Irredundant(x).garbage = clauses[n].garbage /\ ~Irredundant(x).redundant
      /\ Irredundant(x) = [Irredundant(y) EXCEPT !.id = clause_id + 1]
  <2>1. /\ x \in Clause /\ x.lits = C /\ x.id = clause_id + 1
        /\ x.redundant = clauses[n].redundant /\ x.garbage = clauses[n].garbage
    BY <1>1, <1>3, <1>4, RenewedIs, SMTT(60)
  <2>2. /\ y \in Clause /\ y.lits = C /\ y.redundant = clauses[n + 1].redundant
        /\ y.garbage = clauses[n + 1].garbage
    BY <1>1, <1>3, <1>4, RenewedIs, SMTT(60)
  <2>3. clauses[n + 1].redundant = clauses[n].redundant /\ clauses[n + 1].garbage = clauses[n].garbage
    BY <1>1, PairIs
  <2> HIDE DEF x, y
  <2>4. x = [y EXCEPT !.id = x.id]
    BY <2>1, <2>2, <2>3, SameButId
  <2> DEFINE v == Irredundant(x)
             w == Irredundant(y)
  <2>5. /\ v \in Clause /\ v.lits = C /\ v.id = clause_id + 1 /\ v.garbage = clauses[n].garbage
        /\ v.redundant = FALSE
    BY <2>1, IrredundantIs
  <2>6. w \in Clause /\ w.lits = C /\ w.garbage = clauses[n].garbage /\ w.redundant = FALSE
    BY <2>2, <2>3, IrredundantIs
  <2> HIDE DEF v, w
  <2>7. v = [w EXCEPT !.id = v.id]
    BY <2>5, <2>6, SameButId, ZenonT(60)
  <2> QED
    BY <2>1, <2>4, <2>5, <2>7 DEF v, w
<1> HIDE DEF x, y
<1>7. ASSUME NEW m \in Originals, m # n
      PROVE  /\ m \in DOMAIN clauses /\ m + 1 \in DOMAIN clauses
             /\ m \in DOMAIN clauses \ {n, n + 1} /\ m + 1 \in DOMAIN clauses \ {n, n + 1}
             /\ st.clauses[m] = clauses[m] /\ st.clauses[m + 1] = clauses[m + 1]
  <2>1. m \in Nat /\ m \in DOMAIN clauses /\ m + 1 \in DOMAIN clauses /\ m + 1 \notin Originals
    BY <1>1, PairIs
  <2>2. m # n + 1 /\ m + 1 # n /\ m + 1 # n + 1
    BY <1>3, <1>7, <2>1
  <2> QED
    BY <1>5, <1>7, <2>1, <2>2
<1>8. \* what is left to show, for the pairs that are marked
      ASSUME NEW r \in LogState, Become(r, FALSE), NEW D \in SUBSET (Originals \ {n}),
             \A d \in D : ~clauses[d].garbage /\ -l \in clauses[d].lits /\ C \subseteq clauses[d].lits,
             r.id = clause_id + 2, r.units = unit_clauses, DOMAIN r.clauses = DOMAIN clauses,
             \/ r.clauses[n] = x /\ r.clauses[n + 1] = y
             \/ r.clauses[n] = Irredundant(x) /\ r.clauses[n + 1] = Irredundant(y),
             \A d \in D : ~clauses[d].redundant => ~r.clauses[n].redundant,
             \A m \in Originals \ {n} :
               /\ r.clauses[m] = IF m \in D THEN AsGarbage(clauses[m]) ELSE clauses[m]
               /\ r.clauses[m + 1] = IF m \in D THEN AsGarbage(clauses[m + 1]) ELSE clauses[m + 1],
             \A e \in proof \cup {Entry(clause_id + 1, C)} :
               \/ e \in r.proof
               \/ \E m \in D \cup {n} :
                    /\ Cardinality(clauses[m].lits) # 2
                    /\ e \in {Entry(clauses[m].id, clauses[m].lits), Entry(clauses[m + 1].id, clauses[m].lits)}
      PROVE  LogInv'
  <2>1. /\ clause_id' = clause_id + 2 /\ clauses' = r.clauses /\ unit_clauses' = unit_clauses
        /\ proof' = r.proof /\ confused' = (confused \/ Confusable')
    BY <1>8, BecomeIs
  <2>2. /\ r.clauses[n].lits = C /\ r.clauses[n].id = clause_id + 1
        /\ r.clauses[n].garbage = clauses[n].garbage
        /\ r.clauses[n] = [r.clauses[n + 1] EXCEPT !.id = clause_id + 1]
        /\ ~clauses[n].redundant => ~r.clauses[n].redundant
    BY <1>6, <1>8
  <2>3. TypeOK'
    <3>1. Len(r.clauses) = Len(clauses)
      BY <1>1, <1>8 DEF LogState
    <3>2. /\ original_id' \in 0 .. Len(Formula) /\ scan' \in 0 .. Len(r.clauses) \div 2
          /\ r.id >= Len(Formula) /\ FALSE \in BOOLEAN
      BY <1>1, <1>2, <1>8, <3>1
    <3> QED
      BY <1>1, <1>8, <3>2, BecomeTyped
  <2>4. PairStrengthened(n, C, D)
    BY <1>8, <2>1, <2>2 DEF PairStrengthened
  <2>5. CopiesAgree' /\ UsedClausesInProof' /\ FirstIdsUnique' /\ (Confusable' => confused')
    <3>1. \A d \in D : ~clauses[d].garbage /\ -l \in clauses[d].lits
      BY <1>8
    <3> QED
      BY <1>2, <1>4, <2>1, <2>3, <2>4, <3>1, StrengthenedPair
  <2>6. Originals' = Originals
    BY <1>8, <2>1 DEF Originals
  <2>7. \A c \in Originals : ~clauses[c].redundant /\ ~clauses[c].garbage =>
           \E k \in Originals' : /\ ~clauses'[k].redundant /\ ~clauses'[k].garbage
                                 /\ clauses'[k].lits \subseteq clauses[c].lits
    <3> SUFFICES ASSUME NEW c \in Originals, ~clauses[c].redundant, ~clauses[c].garbage
        PROVE  \E k \in Originals : /\ ~r.clauses[k].redundant /\ ~r.clauses[k].garbage
                                    /\ r.clauses[k].lits \subseteq clauses[c].lits
      BY <2>1, <2>6
    <3>1. CASE c \in D \cup {n}
      BY <1>2, <1>4, <1>8, <2>2, <3>1
    <3>2. CASE c \notin D \cup {n}
      <4>1. r.clauses[c] = clauses[c]
        BY <1>8, <3>2
      <4> QED
        BY <4>1
    <3> QED
      BY <3>1, <3>2
  <2>8. IrredundantKept'
    BY <1>2, <2>1, <2>7, LeftStays, StillKept
  <2> QED
    BY <2>3, <2>5, <2>8 DEF LogInv, ClausesInProof
<1>9. CASE Become(st, FALSE)
  <2>1. \A m \in Originals \ {n} :
          st.clauses[m] = clauses[m] /\ st.clauses[m + 1] = clauses[m + 1]
    BY <1>7
  <2>2. Cardinality(clauses[n].lits) # 2
    BY <1>2
  <2> DEFINE D == {}
  <2>3. /\ D \in SUBSET (Originals \ {n}) /\ \A m : m \notin D
    OBVIOUS
  <2>4. \A e \in proof \cup {Entry(clause_id + 1, C)} :
          \/ e \in st.proof
          \/ \E m \in D \cup {n} :
               /\ Cardinality(clauses[m].lits) # 2
               /\ e \in {Entry(clauses[m].id, clauses[m].lits), Entry(clauses[m + 1].id, clauses[m].lits)}
    BY <1>5, <2>2
  <2> HIDE DEF D
  <2> QED
    BY <1>5, <1>8, <1>9, <2>1, <2>3, <2>4, ZenonT(60)
<1>10. ASSUME NEW d \in Originals \ {n}, C \subseteq st.clauses[d].lits, ~st.clauses[d].garbage,
              -l \in st.clauses[d].lits, Become(OtfsSubsumed(st, n, d), FALSE)
       PROVE  LogInv'
  <2> DEFINE r == OtfsSubsumed(st, n, d)
             keep == st.clauses[d].redundant \/ ~st.clauses[n].redundant
             D == {d}
  <2>1. /\ d \in DOMAIN clauses \ {n, n + 1} /\ d + 1 \in DOMAIN clauses \ {n, n + 1}
        /\ st.clauses[d] = clauses[d] /\ st.clauses[d + 1] = clauses[d + 1]
        /\ clauses[d + 1].lits = clauses[d].lits
    BY <1>1, <1>7, PairIs
  <2>2. /\ r \in LogState /\ r.id = st.id /\ r.units = st.units
        /\ DOMAIN r.clauses = DOMAIN st.clauses
        /\ \A m \in {n, n + 1} :
             r.clauses[m] = IF keep THEN st.clauses[m] ELSE Irredundant(st.clauses[m])
        /\ \A m \in {d, d + 1} : r.clauses[m] = AsGarbage(st.clauses[m])
        /\ \A m \in DOMAIN st.clauses \ {n, n + 1, d, d + 1} : r.clauses[m] = st.clauses[m]
        /\ \A e \in st.proof :
             \/ e \in r.proof
             \/ /\ Cardinality(st.clauses[d].lits) # 2
                /\ e \in {Entry(st.clauses[d].id, st.clauses[d].lits),
                          Entry(st.clauses[d + 1].id, st.clauses[d].lits)}
    <3>1. /\ n \in DOMAIN st.clauses /\ n + 1 \in DOMAIN st.clauses /\ d \in DOMAIN st.clauses
          /\ d + 1 \in DOMAIN st.clauses /\ n # d /\ n + 1 # d /\ n # d + 1
          /\ st.clauses[d + 1].lits = st.clauses[d].lits
      BY <1>3, <1>5, <2>1
    <3> QED
      BY <1>5, <3>1, OtfsSubsumedIs
  <2>3. Become(r, FALSE)
    BY <1>10
  <2> HIDE DEF r
  <2>4. /\ \/ r.clauses[n] = x /\ r.clauses[n + 1] = y
           \/ r.clauses[n] = Irredundant(x) /\ r.clauses[n + 1] = Irredundant(y)
        /\ ~clauses[d].redundant => ~r.clauses[n].redundant
    <3>1. CASE keep
      BY <1>5, <2>1, <2>2, <3>1
    <3>2. CASE ~keep
      BY <1>5, <1>6, <2>2, <3>2
    <3> QED
      BY <3>1, <3>2
  <2> HIDE DEF keep
  <2>5. ASSUME NEW m \in Originals \ {n}
        PROVE  /\ r.clauses[m] = IF m \in D THEN AsGarbage(clauses[m]) ELSE clauses[m]
               /\ r.clauses[m + 1] = IF m \in D THEN AsGarbage(clauses[m + 1]) ELSE clauses[m + 1]
    <3>1. CASE m = d
      BY <2>1, <2>2, <3>1
    <3>2. CASE m # d
      <4>1. /\ m \in Nat /\ d \in Nat /\ m + 1 \notin Originals /\ d + 1 \notin Originals
        BY <1>1, PairIs
      <4>2. m \notin {n, n + 1, d, d + 1} /\ m + 1 \notin {n, n + 1, d, d + 1}
        BY <1>7, <3>2, <4>1
      <4> QED
        BY <1>5, <1>7, <2>2, <3>2, <4>2
    <3> QED
      BY <3>1, <3>2
  <2>6. \A e \in proof \cup {Entry(clause_id + 1, C)} :
          \/ e \in r.proof
          \/ \E m \in D \cup {n} :
               /\ Cardinality(clauses[m].lits) # 2
               /\ e \in {Entry(clauses[m].id, clauses[m].lits), Entry(clauses[m + 1].id, clauses[m].lits)}
    <3>1. Cardinality(clauses[n].lits) # 2 /\ n \in D \cup {n} /\ d \in D \cup {n}
      BY <1>2
    <3> HIDE DEF D
    <3> QED
      BY <1>5, <2>1, <2>2, <3>1
  <2>7. /\ D \in SUBSET (Originals \ {n})
        /\ \A m \in D : /\ ~clauses[m].garbage /\ -l \in clauses[m].lits /\ C \subseteq clauses[m].lits
                        /\ ~clauses[m].redundant => ~r.clauses[n].redundant
    BY <1>10, <2>1, <2>4
  <2> HIDE DEF D
  <2> QED
    BY <1>5, <1>8, <2>2, <2>3, <2>4, <2>5, <2>6, <2>7, ZenonT(60)
<1> QED
  BY <1>2, <1>9, <1>10

-----------------------------------------------------------------------------
\* Whatever happens to the ids of the copies, a checker has what the writer
\* propagates with, under different ids, and what is left implies the formula,
\* for every formula (clause.cpp, analyze.cpp, proof.cpp).
THEOREM ProofHasClauses == Spec => []ClausesInProof
<1>1. ASSUME LogInv, [Next]_vars PROVE LogInv'
  <2>1. CASE UNCHANGED vars
    BY <1>1, <2>1, StutterKeeps
  <2>2. CASE AddNewOriginalClause
    BY <1>1, <2>2, AddNewOriginalClauseKeeps
  <2>3. CASE RootConflict
    BY <1>1, <2>3, EmptyKeeps DEF RootConflict
  <2>4. CASE EagerlySubsume
    BY <1>1, <2>4, EagerlySubsumeKeeps
  <2>5. ASSUME NEW C \in Clauses, LearnClause(C) PROVE LogInv'
    BY <1>1, <2>5, LearnClauseKeeps
  <2>6. ASSUME NEW l \in Lit, PropagateUnit(l) PROVE LogInv'
    BY <1>1, <2>6, UnitKeeps DEF PropagateUnit
  <2>7. ASSUME NEW l \in Lit, LearnDriving(l) PROVE LogInv'
    BY <1>1, <2>7, UnitKeeps DEF LearnDriving, Searching
  <2>8. ASSUME NEW l \in Lit, NEW n \in Originals, OnTheFlyStrengthen(n, l) PROVE LogInv'
    BY <1>1, <2>8, OnTheFlyStrengthenKeeps
  <2> QED
    BY <1>1, <2>1, <2>2, <2>3, <2>4, <2>5, <2>6, <2>7, <2>8 DEF Next
<1>2. LogInv => ClausesInProof
  BY DEF LogInv
<1> QED
  BY <1>1, <1>2, InitKeeps, PTL DEF Spec
=============================================================================
