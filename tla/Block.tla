------------------------------- MODULE Block -------------------------------
(***************************************************************************)
(* Blocked clause elimination (block.cpp) for one literal: clauses with    *)
(* only tautological resolvents on it are weakened, all of them if its     *)
(* negation does not occur.                                                *)
(***************************************************************************)
EXTENDS Elim

CONSTANTS BlockMinClsLim, BlockMaxClsLim, BlockOccLim

ASSUME BlockAssumption ==
  BlockMinClsLim \in Nat /\ BlockMaxClsLim \in Nat /\ BlockOccLim \in Nat

\* mark_satisfied_clauses_as_garbage and remove_falsified_literals
Cleaned(st) ==
  LET clean(id) == IF Len(SelectSeq(st.lits[id], LAMBDA l : Val(st, l) >= 0)) < 2 THEN st.lits[id]
                   ELSE SelectSeq(st.lits[id], LAMBDA l : Val(st, l) >= 0)
      satisfied == {id \in Live(st) : HasTrue(st, id, 0)}
  IN [st EXCEPT !.irr = @ \ satisfied, !.red = @ \ satisfied,
                !.lits = [id \in DOMAIN @ |-> IF id \in Live(st) \ satisfied THEN clean(id) ELSE @[id]]]

Tautology(st, c, d, l) == \E k \in LitsOf(st, c) \ {l} : -k \in LitsOf(st, d)

\* is_blocked_clause
IsBlocked(st, c, l) == \A d \in {id \in st.irr : -l \in LitsOf(st, id)} : Tautology(st, c, d, l)

Weakened(st, l, ids) == FoldLeft(LAMBDA s, id : MarkGarbage(PushClause(s, {l}, id), id), st, ids)

\* mark_skip: the negation is in a clause that is too long.
Skipped(st, l) == \E id \in st.irr : -l \in LitsOf(st, id) /\ Size(st, id) > BlockMaxClsLim

BlockPure(st, l) == Mark(Weakened(st, l, Occs(st, l)), l, "pure")

BlockCandidates(st, l) ==
  SelectSeq(Occs(st, l), LAMBDA id : Size(st, id) \in BlockMinClsLim .. BlockMaxClsLim)

\* block_literal_with_one_negative_occ and .._with_at_least_two_negative_occs
\* only differ in how they find the blocked clauses.
BlockWith(st, l) ==
  Weakened(st, l, SelectSeq(BlockCandidates(st, l), LAMBDA id : IsBlocked(st, id, l)))

Blocked(st, l) ==
  IF Len(Occs(st, -l)) > BlockOccLim \/ Skipped(st, l) THEN st
  ELSE IF Occs(st, -l) = <<>> THEN BlockPure(st, l) ELSE BlockWith(st, l)

\* mark_redundant_clauses_with_eliminated_variables_as_garbage
FlushRedundant(st) ==
  [st EXCEPT !.red = {id \in @ : \A l \in LitsOf(st, id) : st.status[Idx(l)] \notin {"eliminated", "pure"}}]
=============================================================================
