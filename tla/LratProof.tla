----------------------------- MODULE LratProof -----------------------------
(***************************************************************************)
(* The proof of a solver that gives no antecedents itself: for each clause *)
(* it adds the builder makes a chain, which goes to the checker of LRAT    *)
(* proofs.  Original clauses come first or, with an incremental use, in    *)
(* between; clauses are deleted or weakened at any time and weakened ones  *)
(* restored; what is left is finalized at the end.                         *)
(***************************************************************************)
EXTENDS LratBuilder, LratChecker

CONSTANTS
  Ids,       \* ids are 1 .. Ids; a restored clause is allocated again with its old
             \* id, while the first allocation may wait for the collection
  Reserved,  \* ids 1 .. Reserved are those of the original clauses
  MaxDeletions \* bound on the number of deletions

LratProofAssumption ==
  /\ LratBuilderAssumption
  /\ Len(Inputs) = 2 * Ids /\ Reserved \in 0 .. Ids /\ MaxDeletions \in Nat
  /\ \A id \in 1 .. Ids : Inputs[id] = Inputs[Ids + id]

VARIABLES seen, deletions, concluded

proofVars == <<seen, deletions, concluded>>
vars == <<builderVars, checkerVars, proofVars>>

IdOf(ref) == IF ref > Ids THEN ref - Ids ELSE ref
Clause(id) == ToSet(Inputs[id])
Live == {e.id : e \in entries}
Refuted == \E e \in entries : e.lits = {}

\* Unit propagation on the live clauses, and what can be derived by it.
Closure(L) ==
  FoldLeft(LAMBDA M, n : M \cup {l \in Lit : \E id \in Live : l \in Clause(id) /\
                                              {-k : k \in Clause(id) \ {l}} \subseteq M},
           L, [n \in 1 .. MaxVar |-> n])
Propagates(C) ==
  \E M \in {Closure({-l : l \in C})} : \E id \in Live : {-l : l \in Clause(id)} \subseteq M

Init == BuilderInit /\ CheckerInit(Reserved) /\ seen = {} /\ deletions = 0 /\ concluded = FALSE

Unused(id) == ~concluded /\ id \notin seen /\ seen' = seen \cup {id} /\ UNCHANGED <<deletions, concluded>>

AddOriginal(id) ==
  /\ id <= Reserved /\ (1 .. id - 1) \subseteq seen
  /\ Unused(id)
  /\ AddOriginalClause(id)
  /\ CheckOriginalClause(id, Clause(id), FALSE)

AddDerived(id) ==
  /\ id = current_id + 1
  /\ ~Refuted  \* the solver derives nothing after the empty clause
  /\ Unused(id) /\ Propagates(Clause(id))
  /\ AddClauseGetProof(id)
  /\ CheckDerivedClause(id, Clause(id), [n \in DOMAIN chain' |-> IdOf(chain'[n])])

Restore(ref) ==
  /\ ~concluded /\ Entry(IdOf(ref), Clause(ref)) \in reconstruct
  /\ ref \notin garbage /\ IdOf(ref) \notin Live
  /\ AddOriginalClause(ref)
  /\ CheckOriginalClause(IdOf(ref), Clause(ref), TRUE)
  /\ UNCHANGED proofVars

Delete(ref, weaken) ==
  /\ ~concluded /\ deletions < MaxDeletions /\ deletions' = deletions + 1
  /\ DeleteClause(ref)
  /\ CheckDeletedClause(IdOf(ref), Clause(ref), weaken)
  /\ UNCHANGED <<seen, concluded>>

Finalize ==
  /\ ~concluded /\ concluded' = TRUE
  /\ CheckStatus({Entry(id, Clause(id)) : id \in Live})
  /\ UNCHANGED <<builderVars, seen, deletions>>

Next ==
  \/ \E id \in 1 .. Ids : AddOriginal(id) \/ AddDerived(id)
  \/ \E ref \in Id : Restore(ref) \/ Delete(ref, FALSE) \/ Delete(ref, TRUE)
  \/ Finalize
Spec == Init /\ [][Next]_vars

-----------------------------------------------------------------------------
\* State by their types.
TypeOK ==
  /\ BuilderTypeOK
  /\ \A e \in entries \cup reconstruct : e.id \in Id /\ e.lits = Clause(e.id)
  /\ seen \subseteq Id /\ deletions \in 0 .. MaxDeletions /\ concluded \in BOOLEAN

\* The checker has nothing to complain about: each chain the builder makes,
\* from a trail that went through any deletions, derives its clause, and the
\* clauses deleted, restored and finalized are those the checker has.
ChainsAccepted == fatal = "none"

\* The builder makes a chain for each clause that unit propagation derives,
\* though a deletion takes units off its trail and it may already be
\* inconsistent.
BuilderComplete == ~failed

\* Builder and checker have the same clauses, and unit propagation refutes them
\* exactly when the builder is inconsistent (which it may forget once the
\* empty clause was derived and other clauses are deleted).
BuilderInconsistent ==
  /\ {IdOf(ref) : ref \in clauses} = Live
  /\ Refuted \/ (Inconsistent <=> Propagates({}))
=============================================================================
