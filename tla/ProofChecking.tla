--------------------------- MODULE ProofChecking ---------------------------
(***************************************************************************)
(* What an online checker of clausal proofs promises, whatever its data    *)
(* structures: a clause that follows by unit propagation is never refused, *)
(* one that does not follow from the original clauses is never accepted,   *)
(* a refutation is neither missed nor made up, and every clause of the     *)
(* proof can be deleted.                                                   *)
(***************************************************************************)
EXTENDS Integers, Sequences, FiniteSets, SequencesExt

CONSTANTS
  MaxVar,
  Inputs,    \* for each clause id, the literals as they are passed
  Originals  \* the ids of the original clauses; the others are derived

ProofCheckingAssumption ==
  /\ MaxVar \in Nat
  /\ Inputs \in Seq(Seq(-MaxVar .. MaxVar \ {0}))
  /\ Originals \subseteq DOMAIN Inputs

VARIABLES
  live,     \* the ids of the clauses added and not deleted
  seen,     \* the ids of all clauses added so far
  verdict   \* "ok", or why checking has come to an end

Var == 1 .. MaxVar
Lit == Var \cup {-v : v \in Var}
Id == DOMAIN Inputs
Clause(id) == ToSet(Inputs[id])
Negated(C) == {-l : l \in C}

\* L with what unit propagation on the live clauses adds.
Closure(L) ==
  FoldLeft(LAMBDA M, n : M \cup {l \in Lit : \E id \in live : /\ l \in Clause(id)
                                                              /\ Negated(Clause(id) \ {l}) \subseteq M},
           L, [n \in 1 .. MaxVar |-> n])
Propagates(C) ==
  \/ C \cap Negated(C) # {}
  \/ \E id \in live : Negated(Clause(id)) \subseteq Closure(Negated(C))

Satisfies(M, C) == \E l \in C : IF l > 0 THEN l \in M ELSE -l \notin M
Entailed(C) == \A M \in SUBSET Var :
  (\A id \in seen \cap Originals : Satisfies(M, Clause(id))) => Satisfies(M, C)

Init == live = {} /\ seen = {} /\ verdict = "ok"

Add(id) ==
  /\ verdict = "ok" /\ id \notin seen
  /\ live' = live \cup {id} /\ seen' = seen \cup {id}
  /\ id \in Originals \/ Entailed(Clause(id))
  /\ \/ verdict' = "ok" /\ ~Propagates({})'
     \/ verdict' = "inconsistent" /\ Entailed({})'

Refuse(id) ==
  /\ verdict = "ok" /\ id \notin seen \cup Originals
  /\ verdict' = "failed" /\ UNCHANGED <<live, seen>>
  /\ ~Propagates(Clause(id))

Delete(id) ==
  /\ verdict = "ok"
  /\ live' = live \ {id} /\ UNCHANGED seen
  /\ \/ UNCHANGED verdict
     \/ id \notin live /\ verdict' \in {"missing", "aborted"}

Next == \E id \in Id : Add(id) \/ Refuse(id) \/ Delete(id)
Spec == Init /\ [][Next]_<<live, seen, verdict>>
=============================================================================
