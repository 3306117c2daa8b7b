------------------------------ MODULE Formula ------------------------------
(***************************************************************************)
(* Literals, clauses and assignments, used to say what the techniques that *)
(* change a formula must keep.  A clause is a sequence or a set of         *)
(* literals, an assignment the set of the variables it makes true.         *)
(***************************************************************************)
EXTENDS Integers, Sequences, FiniteSets, SequencesExt, FiniteSetsExt

CONSTANT MaxVar
ASSUME MaxVarAssumption == MaxVar \in Nat

Var == 1 .. MaxVar
Lit == Var \cup {-v : v \in Var}
Idx(l) == IF l < 0 THEN -l ELSE l
Negated(C) == {-l : l \in C}
Without(c, l) == SelectSeq(c, LAMBDA k : k # l)

Holds(M, l) == IF l > 0 THEN l \in M ELSE -l \notin M
Satisfies(M, C) == \E l \in C : Holds(M, l)
Models(F) == {M \in SUBSET Var : \A C \in F : Satisfies(M, C)}
Entails(F, C) == Models(F) \subseteq Models({C})

\* The literals unit propagation adds to L.
UnitClosure(F, L) ==
  FoldLeft(LAMBDA M, n : M \cup {l \in Lit : \E C \in F : l \in C /\ Negated(C \ {l}) \subseteq M},
           L, [n \in Var |-> n])
=============================================================================
