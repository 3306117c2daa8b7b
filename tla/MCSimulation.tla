---------------------------- MODULE MCSimulation ----------------------------
(***************************************************************************)
(* CNF files and core files for the model checker.   The order of the       *)
(* clauses and of the literals in them matters to the solvers, so a lemma  *)
(* is a sequence, and several orders of one lemma are several lemmas.      *)
(* The fairness of the two loops is stated at the end.                     *)
(***************************************************************************)
EXTENDS Simulation

\* Every clause of three variables: unsatisfiable.  The lemmas are all clauses
\* of one literal and those of two with a positive second one.
Full3 == << <<1, 2, 3>>, <<1, 2, -3>>, <<1, -2, 3>>, <<1, -2, -3>>,
            <<-1, 2, 3>>, <<-1, 2, -3>>, <<-1, -2, 3>>, <<-1, -2, -3>> >>
Lit3 == {l \in Lit : VarOf(l) <= 3}
Short3 == {<<l>> : l \in Lit3} \cup {s \in Lit3 \X (1 .. 3) : VarOf(s[1]) # s[2]}

\* The first conflict under a lemma's negation flips 4 on a lower level and
\* leaves literal 1 undefined: it has to be probed and decided again.
Reabsorb == << <<1, 2>>, <<1, 3>>, <<-2, -3, 4>>, <<-4, 5, 6>>, <<-4, 5, -6>>, <<1, 7, 4>> >>
ReabsorbLemmas == {s \in UNION {[1 .. n -> {1, 5, -4, 7, -2, -3}] : n \in 1 .. 3} :
                     Cardinality(ToSet(s)) = Len(s)}

\* A learned clause, strengthened, subsumes an irredundant one and takes its
\* place.
Promote == << <<-2, -3, -4, 1>>, <<-4, 3, -2>>, <<3, -5>>, <<-2, 3>>, <<4, 2, 3>>,
              <<-5, -1, -3>>, <<-2, -3, -1>>, <<-4, 2, 1>>, <<2, -3, -1, -4>>,
              <<3, -5, -1, -4>>, <<2, 3, 5>>, <<3, 4, -5>>, <<1, -5, 4, -2>>,
              <<-2, -5, -4>> >>
PromoteLemmas == {<<1, -5, -3, -4>>, <<3, 2>>, <<4, 5, 3>>, <<-4, 5, -3, -1>>,
                  <<-4, -3, 5>>, <<2, -4>>}

\* A block of the learned clause is not shrunken to its UIP, for a literal of a
\* lower level would enter: it is minimised instead.
Minimise == << <<8, 6, -3>>, <<-7, -5>>, <<-4, -8, -3>>, <<6, -3>>, <<-1, -2, -4>>,
               <<-7, 8, 4>>, <<7, 1, 3>>, <<7, 6, -4>>, <<8, 5, -1, 3>>, <<4, -6, -2>>,
               <<8, -3, 2>>, <<3, 7, -5>>, <<-1, -8, -4>>, <<7, 2, -1>>, <<8, -2, -1>>,
               <<-8, -5>>, <<7, 1>>, <<4, 5>>, <<6, -3>>, <<5, -2, -6, -7>>,
               <<2, 4, -3>>, <<8, 1, 3>>, <<-2, 4, -8, -5>>, <<7, -3, -5>> >>
MinimiseLemmas == {<<2, 7, -4>>, <<8, -6, -1>>, <<4>>, <<-1>>, <<-4, 2, -3, 1>>,
                   <<1, -3>>}

\* A learned clause eagerly subsumes one learned shortly before.
Eager == << <<2, 5, -3>>, <<5, 2, 3>>, <<3, 2>>, <<5, 4, 1>>, <<-4, -5, 3>>, <<-4, 2>>,
            <<-2, -3>>, <<2, 4, 5>>, <<-1, -4>>, <<-5, 2, 3>>, <<3, -4, 5>>, <<4, -2, 1>>,
            <<-4, -3>>, <<-1, 5, -4>> >>
EagerLemmas == {<<2, -4>>, <<-1, -4, 2>>, <<3, 2, -4, -1>>, <<-1, -3, 5>>, <<-2, 1, -5>>,
                <<-1, -3>>, <<-2, 1>>}

\* Deciding -5, -4, -3 conflicts; the strengthened clause then makes the probed
\* literal 3 false without another conflict.
FalseProbe == << <<-1, 2, 5>>, <<-1, -2, 5>>, <<1, -3, 5>>, <<3, 4, 1>> >>
FalseProbeLemmas == {s \in [1 .. 3 -> {3, 4, 5}] : Cardinality(ToSet(s)) = 3}
                    \cup {<<5, 3>>, <<5, 4>>}

AllInputs == {[cnf |-> Full3, core |-> Short3, most |-> 3],
                 [cnf |-> Reabsorb, core |-> ReabsorbLemmas, most |-> 2],
                 [cnf |-> Promote, core |-> PromoteLemmas, most |-> 3],
                 [cnf |-> Minimise, core |-> MinimiseLemmas, most |-> 3],
                 [cnf |-> Eager, core |-> EagerLemmas, most |-> 4]}
ProbeInputs == {[cnf |-> FalseProbe, core |-> FalseProbeLemmas, most |-> 2]}
-----------------------------------------------------------------------------
\* The two programs are single threads that wait for nothing: while a lemma is taken
\* up or a word is left to read there is a next turn, and it is taken.  That the core
\* file holds another lemma is not promised.
\* 'turn' flips with every turn of either loop, so that the fairness is that of an
\* action whose ENABLED is its guard; WF of the turns of Simulation itself says the
\* same, but to evaluate their ENABLED the model checker would have to run the engine
\* without its caches.
VARIABLE turn

\* Neither loop is at its end: one of the actions but ReadLemma is enabled.
Running == IF words = <<>> THEN lemma # <<>> ELSE reader_res = 0

Turns == turn' = 1 - turn /\ UNCHANGED disk

FairInit == Init /\ turn = 0

\* Next, action by action; all but ReadLemma are turns.
FairNext ==
  \/ \E c \in disk.core : ReadLemma(c) /\ UNCHANGED <<disk, turn>>
  \/ NextEmpoweringLiteral /\ Turns
  \/ AbsorbLiteral /\ Turns
  \/ FinishLemma /\ Turns
  \/ ReadRestart /\ Turns
  \/ ReadBacktrack /\ Turns
  \/ ReadDecision /\ Turns

FairSpec == FairInit /\ [][FairNext]_<<vars, turn>> /\ WF_turn(Running /\ turn' = 1 - turn)
=============================================================================
