------------------------------ MODULE ProofLog ------------------------------
(***************************************************************************)
(* The proof lines and the clause ids of the sequence writer, which stores *)
(* every clause twice.  What is parsed, learned and strengthened is open,  *)
(* as long as it follows from the formula; which lines that gives, with    *)
(* which ids and in which order, is what the code does.  Antecedents are   *)
(* kept as with opts.lrat; those that conflict analysis collects are 'Some'. *)
(***************************************************************************)
EXTENDS Integers, Sequences, FiniteSets, SequencesExt, FiniteSetsExt

CONSTANTS
  MaxVar,
  Formula,  \* the clauses as parsed, sets of literals
  MaxId     \* bound on clause_id

Lit == (1 .. MaxVar) \cup {-v : v \in 1 .. MaxVar}
ASSUME ProofLogAssumption == {MaxVar, MaxId} \subseteq Nat /\ Formula \in Seq(SUBSET Lit)

VARIABLES
  original_id,
  clause_id,
  clauses,      \* the clause list: lits, id, redundant, garbage, copy
  unit_clauses, \* for each literal fixed on the root level, the id of its unit
  unsat,
  scan,         \* the older clauses still to be compared with the newest one
  proof,        \* the clauses added and not deleted, by id
  unjustified,  \* ids of derived clauses that came without antecedents
  unknown,      \* deletions of what is not in the proof
  confused      \* ghost: some copy had the id and the literals of another clause

vars == <<original_id, clause_id, clauses, unit_clauses, unsat, scan, proof, unjustified,
          unknown, confused>>

Some == {0}
Fixed == {l \in Lit : unit_clauses[l] # 0}
Falsified(C) == {l \in C : -l \in Fixed}
Holds(M, C) == \E l \in C : IF l > 0 THEN l \in M ELSE -l \notin M
Entailed(C) == \A M \in SUBSET (1 .. MaxVar) :
                 (\A n \in DOMAIN Formula : Holds(M, Formula[n])) => Holds(M, C)
Tautology(C) == \E l \in C : -l \in C
Clauses == {C \in SUBSET Lit : Cardinality(C) > 1 /\ ~Tautology(C) /\ Entailed(C)}
Originals == {n \in DOMAIN clauses : n % 2 = 1}   \* the first one of each pair
Propagating(n) == ~clauses[n].garbage \/ Cardinality(clauses[n].lits) = 2
Confusable == \E m, n \in Originals :
  /\ m # n /\ Propagating(m) /\ Propagating(n)
  /\ clauses[m + 1].id = clauses[n].id /\ clauses[m].lits = clauses[n].lits

Init ==
  /\ original_id = 0 /\ clause_id = Len(Formula)  \* reserve_ids
  /\ clauses = <<>> /\ unit_clauses = [l \in Lit |-> 0] /\ unsat = FALSE
  /\ scan = 0 /\ proof = {} /\ unjustified = {} /\ unknown = {} /\ confused = FALSE

-----------------------------------------------------------------------------
\* What one call adds to and takes from the proof; st holds what changes.
Now == [id |-> clause_id, clauses |-> clauses, units |-> unit_clauses,
        proof |-> proof, unjustified |-> unjustified, unknown |-> unknown]
Entry(id, lits) == [id |-> id, lits |-> lits]

Added(st, id, lits) == [st EXCEPT !.proof = @ \cup {Entry(id, lits)}]
Derived(st, id, lits, chain) ==
  [Added(st, id, lits) EXCEPT !.unjustified = IF chain = {} THEN @ \cup {id} ELSE @]
Deleted(st, id, lits) ==
  IF Entry(id, lits) \in st.proof THEN [st EXCEPT !.proof = @ \ {Entry(id, lits)}]
  ELSE [st EXCEPT !.unknown = @ \cup {Entry(id, lits)}]

NewClause(st, lits, red) ==
  [st EXCEPT !.id = @ + 1,
             !.clauses = Append(@, [lits |-> lits, id |-> st.id + 1,
                                    redundant |-> red, garbage |-> FALSE])]

Replaced(st, n, c) == [st EXCEPT !.clauses = [@ EXCEPT ![n] = c]]
AsGarbage(c) == [c EXCEPT !.garbage = TRUE]
Irredundant(c) == [c EXCEPT !.redundant = FALSE]
Renewed(c, lits, id) == [c EXCEPT !.lits = lits, !.id = id]

\* Mutant: the deletion of a binary clause is reported at once.
MarkBinaryGarbage(st, n) ==
  Replaced(Deleted(st, st.clauses[n].id, st.clauses[n].lits), n, AsGarbage(st.clauses[n]))

MarkGarbage(st, n) ==
  Replaced(IF Cardinality(st.clauses[n].lits) = 2 THEN st
           ELSE Deleted(st, st.clauses[n].id, st.clauses[n].lits), n, AsGarbage(st.clauses[n]))

Counted(st) == [st EXCEPT !.id = @ + 1]
Strengthened(st, n, lits, chain) ==
  Replaced(Deleted(Derived(Counted(st), st.id + 1, lits, chain), st.clauses[n].id, st.clauses[n].lits),
           n, Renewed(st.clauses[n], lits, st.id + 1))

LearnUnit(st, l, chain) ==
  [Derived(Counted(st), st.id + 1, {l}, chain) EXCEPT !.units = [@ EXCEPT ![l] = st.id + 1]]

LearnEmpty(st, chain) == Derived(Counted(st), st.id + 1, {}, chain)

Become(st, refuted) ==
  /\ clause_id' = st.id /\ clauses' = st.clauses /\ unit_clauses' = st.units
  /\ proof' = st.proof /\ unjustified' = st.unjustified /\ unknown' = st.unknown
  /\ unsat' = refuted /\ confused' = (confused \/ Confusable')

-----------------------------------------------------------------------------
\* Propagation on the root level: units are learned in any order, each with a
\* clause that implies it, until there are no more or a clause is false.
Refuted(C) == \A k \in C : unit_clauses[-k] # 0
Open(l) == unit_clauses[l] = 0 /\ unit_clauses[-l] = 0
Implying(l) == {n \in Originals : Propagating(n) /\ l \in clauses[n].lits /\ Refuted(clauses[n].lits \ {l})}
Implied == {l \in Lit : Open(l) /\ Implying(l) # {}}
Conflicting == {n \in Originals : Propagating(n) /\ Refuted(clauses[n].lits)}
UnitChain(n, C) == {unit_clauses[-k] : k \in clauses[n].lits \ C} \cup {clauses[n].id}

PropagateUnit(l) ==
  /\ ~unsat /\ l \in Implied
  /\ \E n \in Implying(l) : Become(LearnUnit(Now, l, UnitChain(n, {l})), FALSE)
  /\ UNCHANGED <<original_id, scan>>

RootConflict ==
  /\ ~unsat
  /\ \E n \in Conflicting : Become(LearnEmpty(Now, UnitChain(n, {})), TRUE)
  /\ UNCHANGED <<original_id, scan>>

Propagated == unsat \/ (Implied = {} /\ Conflicting = {})

-----------------------------------------------------------------------------
\* A clause with literals false on the root level is replaced by a derived one.
Shortened(st, id, lits) ==
  IF Falsified(lits) = {} THEN [st |-> st, id |-> id]
  ELSE [st |-> Deleted(Derived(Counted(st), st.id + 1, lits \ Falsified(lits),
                               {unit_clauses[-l] : l \in Falsified(lits)} \cup {id}), id, lits),
        id |-> st.id + 1]

\* The clause and its copy; the id of the first is overwritten and clause_id
\* set back by one.
Stored(st, id, lits) ==
  LET two == NewClause(NewClause(st, lits, FALSE), lits, FALSE)
      first == two.clauses[Len(st.clauses) + 1]
  IN [Replaced(two, Len(st.clauses) + 1, [first EXCEPT !.id = id]) EXCEPT !.id = @ - 1]

AddNewOriginalClause ==
  /\ original_id < Len(Formula) /\ clause_id + 3 <= MaxId /\ Propagated
  /\ original_id' = original_id + 1 /\ UNCHANGED scan
  /\ \E lits \in {Formula[original_id + 1]}, id \in {original_id + 1} :
     \E given \in {Added(Now, id, lits)} :
       IF unsat \/ Tautology(lits) \/ lits \cap Fixed # {}
       THEN Become(Deleted(given, id, lits), unsat)
       ELSE \E kept \in {lits \ Falsified(lits)}, new \in {Shortened(given, id, lits)} :
              \/ kept = {} /\ Become(new.st, TRUE)
              \/ /\ Cardinality(kept) = 1
                 /\ Become([new.st EXCEPT !.units = [@ EXCEPT ![CHOOSE l \in kept : TRUE] = new.id]], FALSE)
              \/ Cardinality(kept) > 1 /\ Become(Stored(new.st, new.id, kept), FALSE)

Searching ==
  scan = 0 /\ original_id = Len(Formula) /\ ~unsat /\ clause_id + 4 <= MaxId /\ Propagated

\* The chain of the learned clause and of its copy is the same.
LearnClause(C) ==
  /\ Searching /\ \A l \in C : Open(l)
  /\ \E st \in {NewClause(NewClause(Now, C, TRUE), C, TRUE)} :
       Become(Derived(Derived(st, clause_id + 1, C, Some), clause_id + 2, C, Some), FALSE)
  /\ scan' = Len(clauses) \div 2
  /\ UNCHANGED original_id

\* One turn of eagerly_subsume_recently_learned_clauses for the newest clause: a
\* copy that is subsumed takes its original with it.  The scan may end early.
EagerlySubsume ==
  /\ scan > 0 /\ scan' \in {0, scan - 1}
  /\ \E d \in {2 * scan} :
       IF /\ clauses[d].redundant /\ ~clauses[d].garbage
          /\ clauses[Len(clauses) - 1].lits \subseteq clauses[d].lits
       THEN Become(MarkGarbage(MarkGarbage(Now, d), d - 1), unsat) ELSE Become(Now, unsat)
  /\ UNCHANGED original_id

LearnDriving(l) ==
  /\ Searching /\ Open(l) /\ Entailed({l})
  /\ Become(LearnUnit(Now, l, Some), FALSE)
  /\ UNCHANGED <<original_id, scan>>

\* on_the_fly_strengthen2: one literal and the false ones are removed from
\* both copies of n; the chain was used up by the first.
OtfsStrengthened(n, C) ==
  Strengthened(Strengthened(Now, n, C, Some), n + 1, C, {})

\* otfs_subsume_clause: both copies of d go, and if d was irredundant and the
\* clause c that subsumes it is not, both copies of c become irredundant.
OtfsSubsumed(st, c, d) ==
  LET kept == IF st.clauses[d].redundant \/ ~st.clauses[c].redundant THEN st
              ELSE Replaced(Replaced(st, c, Irredundant(st.clauses[c])), c + 1, Irredundant(st.clauses[c + 1]))
  IN MarkGarbage(MarkGarbage(kept, d), d + 1)

OnTheFlyStrengthen(n, l) ==
  /\ Searching /\ Cardinality(clauses[n].lits) > 2 /\ ~clauses[n].garbage
  /\ l \in clauses[n].lits \ Falsified(clauses[n].lits)
  /\ \E C \in {clauses[n].lits \ ({l} \cup Falsified(clauses[n].lits))} :
       /\ C \in Clauses
       /\ \E st \in {OtfsStrengthened(n, C)} :
            \/ Become(st, FALSE)
            \/ \E d \in Originals \ {n} :
                 /\ C \subseteq st.clauses[d].lits /\ ~st.clauses[d].garbage
                 /\ -l \in st.clauses[d].lits
                 /\ Become(OtfsSubsumed(st, n, d), FALSE)
  /\ UNCHANGED <<original_id, scan>>

Next ==
  \/ AddNewOriginalClause \/ RootConflict \/ EagerlySubsume
  \/ \E C \in Clauses : LearnClause(C)
  \/ \E l \in Lit : PropagateUnit(l) \/ LearnDriving(l) \/ \E n \in Originals : OnTheFlyStrengthen(n, l)
Spec == Init /\ [][Next]_vars

-----------------------------------------------------------------------------
\* Variables have their types.
Clause == [lits : SUBSET Lit, id : Nat, redundant : BOOLEAN, garbage : BOOLEAN]
Line == [id : Nat, lits : SUBSET Lit]
TypeOK ==
  /\ original_id \in 0 .. Len(Formula) /\ clause_id \in Nat /\ clause_id >= Len(Formula)
  /\ scan \in 0 .. Len(clauses) \div 2
  /\ clauses \in Seq(Clause)
  /\ unit_clauses \in [Lit -> Nat]
  /\ {proof, unknown} \subseteq SUBSET Line
  /\ unjustified \subseteq Nat /\ {unsat, confused} \subseteq BOOLEAN

\* A clause and its copy agree in all but the id, through strengthening and
\* subsumption of either.
CopiesAgree ==
  \A n \in Originals :
    /\ n + 1 \in DOMAIN clauses /\ clauses[n] = [clauses[n + 1] EXCEPT !.id = clauses[n].id]
    /\ Cardinality(clauses[n].lits) > 1 /\ ~Tautology(clauses[n].lits)

\* Whatever happens to the ids of the copies, a checker of the proof has every
\* clause and every unit with which the writer can still propagate.  This fails
\* once a copy has the id and the literals of another clause: the deletion of the
\* copy, which was never added, then takes the line of that clause.
UsedClausesInProof ==
  /\ ~confused => \A n \in Originals : Propagating(n) => Entry(clauses[n].id, clauses[n].lits) \in proof
  /\ \A l \in Fixed : Entry(unit_clauses[l], {l}) \in proof

\* The clauses search uses have different ids, also from those of the units, and
\* the ids to come are free.
Taken(id, last, given) == id \in 1 .. last /\ (id > Len(Formula) \/ id <= given)
FirstIdsUnique ==
  /\ \A m, n \in Originals : m # n => clauses[m].id # clauses[n].id
  /\ \A n \in Originals :
       /\ Taken(clauses[n].id, clause_id, original_id)
       /\ clauses[n].id \notin {unit_clauses[l] : l \in Lit}
  /\ \A l \in Fixed : Taken(unit_clauses[l], clause_id, original_id)

\* An irredundant clause is dropped only when what is left implies it.
Left(M) ==
  /\ \A c \in Originals : ~clauses[c].redundant /\ ~clauses[c].garbage => Holds(M, clauses[c].lits)
  /\ \A l \in Fixed : Holds(M, {l})
IrredundantKept ==
  ~unsat => \A n \in 1 .. original_id, M \in SUBSET (1 .. MaxVar) : Left(M) => Holds(M, Formula[n])

\* Whatever happens to the ids of the copies, a checker of the proof has every
\* clause and every unit with which the writer can still propagate, under
\* different ids, and what is left of the formula implies it (clause.cpp,
\* analyze.cpp).
ClausesInProof == TypeOK /\ CopiesAgree /\ UsedClausesInProof /\ FirstIdsUnique /\ IrredundantKept

\* checker.cpp and lratchecker.cpp: a clause that is deleted is in the proof.
DeletionsKnown == unknown = {}
=============================================================================
