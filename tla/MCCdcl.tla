------------------------------- MODULE MCCdcl -------------------------------
(***************************************************************************)
(* Instances of Cdcl for TLC.                                              *)
(***************************************************************************)
EXTENDS Cdcl

\* Unsatisfiable, with a tautology; every conflict leads to OTFS, and some of
\* the strengthened clauses subsume an irredundant conflict.
Refutable == [vars |-> 1 .. 3,
              clauses |-> <<{1, -1}, {1, 2, 3}, {1, 2, -3}, {1, -2},
                            {-1, 2, 3}, {-1, 2, -3}, {-1, -2}>>]

\* Satisfiable: a learned clause, strengthened, subsumes an irredundant one.
Subsumable == [vars |-> 1 .. 5, clauses |-> <<{1, 2, 4}, {2, 3, 5}, {-4, -5}, {1, 2, -3}>>]

\* Satisfiable: learned clauses with a literal minimisation can remove, and a
\* root unit that makes a literal of an older clause false.
Chained == [vars |-> 1 .. 5, clauses |-> <<{-1, 2}, {-2, -3, 4, -5}, {-1, -3, -4}, {5}>>]

Var5 == 1 .. 5
Files == {Refutable, Subsumable, Chained}
=============================================================================
