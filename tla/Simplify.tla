------------------------------ MODULE Simplify ------------------------------
(***************************************************************************)
(* The techniques that simplify the formula, next to variable elimination  *)
(* and blocked clauses: one try of one of them at a time, in any order,    *)
(* with the user adding clauses and assuming literals in between.  Each is *)
(* run on the root level after units were propagated; globally blocked     *)
(* clauses are found under the assignment of search.                       *)
(***************************************************************************)
EXTENDS Inprocess, Subsume

PropagateUnits ==
  /\ mode = "search" /\ On("propagate") /\ ~Propagated
  /\ Propagate(State) /\ UNCHANGED <<original, tainted, frozen>> /\ Goto(mode)

CoverAction(id) ==
  /\ On("cover") /\ mode \in {"search", "between"} /\ ~Restoreflush
  /\ id \in irredundant /\ Coverable(State, id) /\ Propagated
  /\ OnFormula(CoverClause(State, id)) /\ Goto(mode)

\* The trail of the decision, and what the other variables get by their phases.
ConditionAction(decision) ==
  /\ On("condition") /\ mode \in {"search"} /\ Active(State, decision) /\ Propagated
  /\ \E assignment \in {UnitClosure({LitsOf(State, id) : id \in Live(State)}, units \cup {decision})} :
       /\ assignment \cap Negated(assignment) = {}
       /\ \E reasons \in ReasonChoices(State, assignment, assignment \ (units \cup {decision})) :
          \E phases \in SUBSET {v \in Var : Active(State, v) /\ ~Frozen(v) /\ assignment \cap {v, -v} = {}} :
            LET free == {v \in Var : Active(State, v) /\ ~Frozen(v) /\ assignment \cap {v, -v} = {}}
                assigned == {l \in assignment \ units : ~Frozen(l)} \cup phases \cup Negated(free \ phases)
            IN OnFormula(ConditionRound(State, assigned, reasons))
  /\ Goto(mode)

\* decompose_round with the propagation at its end.
DecomposeAction ==
  /\ On("decompose") /\ mode \in {"search"} /\ Propagated
  /\ \E st \in {DecomposeRound(State)} :
     \E U \in {UnitClosure({LitsOf(st, id) : id \in Live(st)}, st.units)} :
       LET end == [st EXCEPT !.units = U,
                     !.unsat = @ \/ \E id \in Live(st) : Negated(LitsOf(st, id)) \subseteq U]
       IN OnFormula(MarkSubstituted(end, State, Reprs(ReachOf(State))))
  /\ Goto(mode)

SubsumeAction(e, c) ==
  /\ On("subsume") /\ mode \in {"search", "between"} /\ CanSubsume(State, e, c)
  /\ OnFormula(TryToSubsume(State, e, c)) /\ Goto(mode)

DeduplicateAction(lit) ==
  /\ On("deduplicate") /\ mode \in {"search"} /\ Active(State, lit) /\ Propagated
  /\ Propagate(Deduplicate(State, lit)) /\ UNCHANGED <<original, tainted, frozen>> /\ Goto(mode)

\* The breadth first search ends with what it finds first.
TransredAction(c, src) ==
  /\ On("transred") /\ mode \in {"search"} /\ Propagated
  /\ Size(State, c) = 2 /\ Clean(State, c) /\ -src \in LitsOf(State, c)
  /\ \/ Transitive(State, c, src) /\ OnFormula(MarkGarbage(State, c))
     \/ Failed(State, c, src) /\ Propagate(AssignUnit(State, -src)) /\ UNCHANGED <<original, tainted, frozen>>
  /\ Goto(mode)

TernaryAction(c, d, pivot) ==
  /\ On("ternary") /\ mode \in {"search"} /\ CanResolve(State, c, d, pivot) /\ Propagated
  /\ OnFormula(AddTernary(State, c, d, TernaryResolvent(State, c, d, pivot))) /\ Goto(mode)

Simplifying ==
  \/ PropagateUnits \/ DecomposeAction
  \/ \E id \in irredundant : CoverAction(id)
  \/ \E l \in input.decisions : ConditionAction(l)
  \/ \E e, c \in irredundant \cup redundant : SubsumeAction(e, c)
  \/ \E l \in Lit : DeduplicateAction(l)
  \/ \E c \in irredundant \cup redundant : \E l \in Lit : TransredAction(c, l)
  \/ \E c, d \in irredundant \cup redundant : \E l \in Lit : TernaryAction(c, d, l)
=============================================================================
