----------------------------- MODULE Decompose -----------------------------
(***************************************************************************)
(* Equivalent literal substitution (decompose.cpp): the literals of a      *)
(* strongly connected component of the binary clauses, learned ones        *)
(* included, are replaced by the one with the smallest variable, except    *)
(* for frozen ones.  The equivalences go to the extension stack.           *)
(***************************************************************************)
EXTENDS Condition

\* The literals the binary clauses imply from those of L, in one step.
Implied(st, L) ==
  {k \in Lit : Active(st, k) /\ \E id \in Live(st) : \E l \in L :
     Size(st, id) = 2 /\ LitsOf(st, id) = {-l, k}}

RECURSIVE Reachable(_, _)
Reachable(st, L) == IF Implied(st, L) \subseteq L THEN L ELSE Reachable(st, L \cup Implied(st, L))

Component(reach, l) == {k \in reach[l] : l \in reach[k]}
Smallest(S) == CHOOSE l \in S : \A k \in S : Idx(l) <= Idx(k)

\* The representative of each literal.
Reprs(reach) ==
  [l \in Lit |-> IF l \in DOMAIN reach /\ ~Frozen(l) THEN Smallest(Component(reach, l)) ELSE l]

\* push_binary_clause_on_extension_stack for both implications.
PushEquivalence(st, v, other) ==
  [st EXCEPT !.lits = @ \o << <<other, -v>>, <<v, -other>> >>,
             !.ext = @ \o <<Entry({-v}, Len(st.lits) + 1, {-v, other}),
                            Entry({v}, Len(st.lits) + 2, {v, -other})>>]

\* One clause: 'c' are the representatives that are not false, without doubles.
Substituted(st, id, c) ==
  IF \E l \in ToSet(c) : Val(st, l) > 0 \/ -l \in ToSet(c) THEN MarkGarbage(st, id)
  ELSE CASE Len(c) = 0 -> LearnEmpty(st)
         [] Len(c) = 1 -> MarkGarbage(AssignUnit(st, c[1]), id)
         [] Len(c) > 1 /\ SubSeq(c, 1, 2) = SubSeq(st.lits[id], 1, 2) -> [st EXCEPT !.lits[id] = c]
         [] OTHER -> MarkGarbage([st EXCEPT !.lits = Append(@, c),
                       !.irr = @ \cup IF id \in @ THEN {Len(st.lits) + 1} ELSE {},
                       !.red = @ \cup IF id \in @ THEN {Len(st.lits) + 1} ELSE {}], id)

NoDoubles(s) == FoldLeft(LAMBDA t, l : IF l \in ToSet(t) THEN t ELSE Append(t, l), <<>>, s)

\* Mutant: learned clauses are not substituted.
SubstituteIrredundant(st, id, repr) ==
  IF id \notin st.irr THEN st ELSE Substituted(st, id, NoDoubles([n \in DOMAIN st.lits[id] |-> repr[st.lits[id][n]]]))

Substitute(st, id, repr) ==
  IF st.unsat \/ id \notin Live(st) \/ \A l \in LitsOf(st, id) : repr[l] = l THEN st
  ELSE Substituted(st, id, NoDoubles(SelectSeq([n \in DOMAIN st.lits[id] |->
                               IF Val(st, st.lits[id][n]) # 0 THEN st.lits[id][n]
                               ELSE repr[st.lits[id][n]]], LAMBDA l : Val(st, l) >= 0)))

Replacements(st, repr) ==
  SelectSeq([v \in Var |-> v], LAMBDA v : Active(st, v) /\ repr[v] # v)

SubstituteAll(st, old, repr) ==
  FoldLeft(LAMBDA s, id : Substitute(s, id, repr),
           FoldLeft(LAMBDA s, v : PushEquivalence(s, v, repr[v]), st, Replacements(st, repr)),
           [id \in 1 .. old |-> id])

\* decompose_round up to the propagation of the units.
DecomposeWith(st, reach) ==
  IF \E l \in DOMAIN reach : -l \in Component(reach, l)
  THEN LearnEmpty(AssignUnit(st, CHOOSE l \in DOMAIN reach : -l \in Component(reach, l)))
  ELSE SubstituteAll(st, Len(st.lits), Reprs(reach))
ReachOf(st) == [l \in {k \in Lit : Active(st, k)} |-> Reachable(st, {l})]
DecomposeRound(st) == DecomposeWith(st, ReachOf(st))

\* mark_substituted, unless the representative has become a unit.
MarkSubstituted(st, start, repr) ==
  FoldLeft(LAMBDA s, v : IF Active(s, v) /\ ~st.unsat /\ Val(s, repr[v]) = 0
                         THEN Mark(s, v, "substituted") ELSE s,
           st, Replacements(start, repr))
=============================================================================
