------------------------------- MODULE Cover -------------------------------
(***************************************************************************)
(* Covered clause elimination (cover.cpp) of one clause: the literals that *)
(* unit propagation over the other irredundant clauses makes false are     *)
(* added (asymmetric), as are those in all resolution candidates of one of *)
(* its literals (covered); once it is a tautology it is removed, with an   *)
(* entry of the stack for each covered step.                               *)
(***************************************************************************)
EXTENDS Block

CONSTANTS CoverMinClsLim, CoverMaxClsLim, CoverProof \* whether a proof is written

ASSUME CoverAssumption ==
  CoverMinClsLim \in Nat /\ CoverMaxClsLim \in Nat /\ CoverProof \in BOOLEAN

\* The set of literals x.set false so far propagates to the end.
Asymmetric(st, id, x) ==
  LET others == {LitsOf(st, d) : d \in st.irr \ {id}}
      true == UnitClosure(others, st.units \cup Negated(x.set))
  IN [x EXCEPT !.set = Negated(true), !.tautology = \E C \in others : Negated(C) \subseteq true]

FalseIn(st, x, l) == l \in x.set
TrueIn(st, x, l) == -l \in x.set

\* The clauses with the negation of l that are not satisfied by another literal.
ResolutionCandidates(st, x, l) ==
  SelectSeq(Occs(st, -l), LAMBDA d : \A k \in LitsOf(st, d) \ {-l} : ~TrueIn(st, x, k))

\* The literals, neither false nor -l, that are in all of them.
Intersection(st, x, l, candidates) ==
  SelectSeq(st.lits[Head(candidates)],
            LAMBDA k : k # -l /\ ~FalseIn(st, x, k) /\ \A d \in ToSet(candidates) : k \in LitsOf(st, d))

\* cover_push_extension: the blocking literal comes first.
PushExtension(x, l) == Append(x.extend, [witness |-> l, clause |-> x.covered])

\* cover_propagate_covered for the next literal, with the candidates given.
Covered(st, x, l, candidates) ==
  IF candidates = <<>> THEN [x EXCEPT !.extend = PushExtension(x, l), !.tautology = TRUE]
  ELSE IF Intersection(st, x, l, candidates) = <<>> THEN [x EXCEPT !.next = @ + 1]
  ELSE [x EXCEPT !.extend = PushExtension(x, l), !.next = 1,
          !.covered = @ \o Intersection(st, x, l, candidates),
          !.set = @ \cup ToSet(Intersection(st, x, l, candidates))]

CoverNext(st, x, l) ==
  IF Frozen(l) THEN [x EXCEPT !.next = @ + 1] ELSE Covered(st, x, l, ResolutionCandidates(st, x, l))

RECURSIVE CoverLoop(_, _, _)
CoverLater(st, id, x) ==
  IF x.tautology \/ x.next > Len(x.covered) THEN x ELSE CoverLoop(st, id, CoverNext(st, x, x.covered[x.next]))
CoverLoop(st, id, x) == IF x.tautology THEN x ELSE CoverLater(st, id, Asymmetric(st, id, x))

\* Each entry has the clause of its step and a new id; the false literals of
\* the clause are left out of the last one if there is no proof.
PushCovered(st, id, extend, missing) ==
  LET entry(n) == Entry({extend[n].witness}, Len(st.lits) + n,
                        ToSet(extend[n].clause)
                        \cup IF n < Len(extend) \/ CoverProof THEN missing ELSE {})
  IN MarkGarbage([st EXCEPT !.ext = @ \o [n \in DOMAIN extend |-> entry(n)],
                            !.lits = @ \o [n \in DOMAIN extend |-> extend[n].clause]], id)

\* A clause that is an asymmetric tautology is counted and kept.
CoverEnd(st, id, x) ==
  IF ~x.tautology \/ x.extend = <<>> THEN st
  ELSE PushCovered(st, id, x.extend, {l \in LitsOf(st, id) : Val(st, l) < 0})

CoverClause(st, id) ==
  IF HasTrue(st, id, 0) THEN MarkGarbage(st, id)
  ELSE CoverEnd(st, id, CoverLoop(st, id, [set |-> ToSet(Unassigned(st, id)) \cup Negated(st.units),
                                          covered |-> Unassigned(st, id), next |-> 1,
                                          extend |-> <<>>, tautology |-> FALSE]))

\* cover_round: clauses of frozen literals only are not tried.
Coverable(st, id) ==
  /\ id \in st.irr /\ Size(st, id) \in CoverMinClsLim .. CoverMaxClsLim
  /\ \E l \in LitsOf(st, id) : ~Frozen(l)
=============================================================================
