----------------------------- MODULE Condition -----------------------------
(***************************************************************************)
(* Globally blocked clause elimination (condition.cpp): an assignment of   *)
(* the active variables that are not frozen is split into a conditional    *)
(* part and an autarky.  A clause with an autarky literal is removed, the  *)
(* autarky its witness, if no other clause is touched by the autarky that  *)
(* it does not satisfy, given the conditional literals the clause negates. *)
(***************************************************************************)
EXTENDS Cover

\* The root level literals do not count; 'assigned' are the literals true.
Rest(st, id) == {l \in LitsOf(st, id) : Val(st, l) = 0}
Positive(st, id, assigned) == Rest(st, id) \cap assigned
Negative(st, id, assigned) == Rest(st, id) \cap Negated(assigned)

\* The literals clauses without a true literal make conditional.
InitialConditionals(st, assigned) ==
  UNION {Negated(Negative(st, id, assigned)) :
           id \in {id \in st.irr : ~HasTrue(st, id, 0) /\ Positive(st, id, assigned) = {}}}

\* Conditional literals the clause does not negate are unassigned; autarky
\* literals falsified in clauses left without a true one become conditional.
Conditionals(st, id, assigned, conditional) ==
  LET loose == {l \in conditional : -l \notin LitsOf(st, id)}
      left == assigned \ loose
      open == {d \in st.irr : /\ ~HasTrue(st, d, 0) /\ Positive(st, d, assigned) # {}
                              /\ Positive(st, d, left) = {}}
  IN conditional \cup UNION {Negated(Negative(st, d, assigned)) : d \in open}

RECURSIVE ConditionalPart(_, _, _, _)
ConditionalStep(st, id, assigned, old, new) ==
  IF new = old THEN old ELSE ConditionalPart(st, id, assigned, new)
ConditionalPart(st, id, assigned, conditional) ==
  ConditionalStep(st, id, assigned, conditional, Conditionals(st, id, assigned, conditional))

\* One candidate; the others are as they were when the round started.
Conditioned(st, start, id, assigned, autarky) ==
  IF autarky \cap LitsOf(start, id) = {} THEN st ELSE MarkGarbage(PushClause(st, autarky, id), id)
ConditionClause(st, start, id, assigned, initial) ==
  Conditioned(st, start, id, assigned, assigned \ ConditionalPart(start, id, assigned, initial))

\* condition_round with the clauses that are reasons skipped.
ConditionCandidates(st, assigned, reasons) ==
  {id \in st.irr \ reasons : ~HasTrue(st, id, 0) /\ Positive(st, id, assigned) # {}}
ConditionWith(st, assigned, candidates, initial) ==
  FoldLeft(LAMBDA s, id : ConditionClause(s, st, id, assigned, initial),
           [st EXCEPT !.irr = {id \in @ : ~HasTrue(st, id, 0)}], SetToSeq(candidates))
ConditionRound(st, assigned, reasons) ==
  ConditionWith(st, assigned, ConditionCandidates(st, assigned, reasons), InitialConditionals(st, assigned))

\* The reasons a trail with the literals 'implied' can have.
ReasonChoices(st, trail, implied) ==
  {ToSet(r) : r \in {f \in [1 .. Cardinality(implied) -> st.irr \cup st.red] :
     \A n \in DOMAIN f : LET l == SetToSeq(implied)[n]
                         IN l \in LitsOf(st, f[n]) /\ Negated(LitsOf(st, f[n]) \ {l}) \subseteq trail}}
=============================================================================
