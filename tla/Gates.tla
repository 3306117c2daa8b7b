------------------------------- MODULE Gates -------------------------------
(***************************************************************************)
(* Gate extraction before a variable is eliminated (gates.cpp): if clauses *)
(* with the pivot define it, only resolvents of one of them with one of    *)
(* the others are needed.  Units found on the way are propagated over the  *)
(* irredundant clauses only.  The state of the eliminator is a record st   *)
(* (see Extension); gates are sets of clauses.                             *)
(***************************************************************************)
EXTENDS Extension

CONSTANTS
  GateKinds,   \* opts.elimequivs, elimands, elimites, elimxors
  ElimXorLim

ASSUME GatesAssumption ==
  GateKinds \subseteq {"equivalence", "and", "ite", "xor"} /\ ElimXorLim \in Nat

\* The occurrence list of a literal: irredundant clauses, oldest first.  Garbage on
\* it is skipped, and only counts for its length.
Occs(st, l) ==
  SelectSeq([id \in DOMAIN st.lits |-> id], LAMBDA id : id \in st.irr /\ l \in LitsOf(st, id))
\* A clause that becomes garbage stays on the lists until they are flushed.
Discard(st, id) == [MarkGarbage(st, id) EXCEPT !.stale = @ \cup (LitsOf(st, id) \X {id})]
FlushOccs(st, v) == [st EXCEPT !.stale = {s \in @ : Idx(s[1]) # v}]
Length(st, l) == Len(Occs(st, l)) + Cardinality({s \in st.stale : s[1] = l})
Unassigned(st, id) == SelectSeq(st.lits[id], LAMBDA l : Val(st, l) = 0)
IsGarbage(st, id) == id \notin st.irr
Oldest(S) == {CHOOSE n \in S : \A k \in S : n <= k}

\* elim_propagate: one clause with the falsified literal.
VisitFalsified(r, id) ==
  LET rest == {l \in LitsOf(r.st, id) : Val(r.st, l) >= 0}
  IN IF IsGarbage(r.st, id) THEN r
     ELSE IF \E l \in rest : Val(r.st, l) > 0 THEN [r EXCEPT !.st = Discard(@, id)]
     ELSE CASE rest = {} -> [r EXCEPT !.st = LearnEmpty(@)]
            [] Cardinality(rest) = 1 ->
                 LET l == CHOOSE l \in rest : TRUE
                 IN [st |-> AssignUnit(r.st, l), work |-> Append(r.work, l)]
            [] OTHER -> r

RECURSIVE PropagateWork(_, _)
MarkSatisfied(r, lit, work) == PropagateWork(FoldLeft(Discard, r.st, Occs(r.st, lit)), work \o r.work)
PropagateWork(st, work) ==
  IF work = <<>> \/ st.unsat THEN st
  ELSE MarkSatisfied(FoldLeft(VisitFalsified, [st |-> st, work |-> <<>>], Occs(st, -Head(work))),
                     Head(work), Tail(work))

ElimPropagate(st, unit) == PropagateWork(AssignUnit(st, unit), <<unit>>)

-----------------------------------------------------------------------------
\* second_literal_in_binary_clause looks at no more than two literals.
Others(st, id, first) == SelectSeq(st.lits[id], LAMBDA l : l # first /\ Val(st, l) >= 0)
SeenSatisfied(st, o) == \E n \in DOMAIN o : n <= 2 /\ Val(st, o[n]) > 0 /\ Val(st, o[1]) >= 0
IsBinary(st, id, first) ==
  LET o == Others(st, id, first) IN Len(o) = 1 /\ Val(st, o[1]) = 0
Second(st, id, first) == Others(st, id, first)[1]
DropSatisfied(st, id, first) ==
  IF SeenSatisfied(st, Others(st, id, first)) THEN Discard(st, id) ELSE st

\* mark_binary_literals
MarkBinary(r, id, first) ==
  LET second == Second(r.st, id, first)
  IN IF r.done \/ IsGarbage(r.st, id) THEN r
     ELSE IF ~IsBinary(r.st, id, first) THEN [r EXCEPT !.st = DropSatisfied(@, id, first)]
     ELSE CASE -second \in r.marked -> [r EXCEPT !.st = ElimPropagate(@, first), !.done = TRUE]
            [] second \in r.marked -> [r EXCEPT !.st = Discard(@, id)]
            [] OTHER -> [r EXCEPT !.marked = @ \cup {second}]
Marked(st, first) ==
  FoldLeft(LAMBDA r, id : MarkBinary(r, id, first),
           [st |-> st, marked |-> {}, done |-> FALSE], Occs(st, first))

\* find_equivalence: a clause (-pivot, second) while (pivot, -second) is there.
EquivalenceWith(r, id, pivot) ==
  LET second == Second(r.st, id, -pivot)
      partners == {d \in r.st.irr : /\ pivot \in LitsOf(r.st, d) /\ IsBinary(r.st, d, pivot)
                                    /\ Second(r.st, d, pivot) = -second}
      done(st) == [r EXCEPT !.st = st, !.done = st.unsat \/ Val(st, pivot) # 0]
  IN IF r.done \/ IsGarbage(r.st, id) THEN r
     ELSE IF ~IsBinary(r.st, id, -pivot) THEN [r EXCEPT !.st = DropSatisfied(@, id, -pivot)]
     ELSE CASE second \in r.marked ->
                 done(ElimPropagate(r.st, second))
            [] -second \in r.marked ->
                 [r EXCEPT !.gates = {id} \cup Oldest(partners), !.done = TRUE]
            [] OTHER -> r

\* find_and_gate: all other literals of a long clause are marked negatively.
AndGateWith(r, id, pivot) ==
  LET o == Others(r.st, id, -pivot)
      upto == {n \in DOMAIN o : Val(r.st, o[n]) > 0 \/ -o[n] \notin r.marked}
      stop == CHOOSE n \in upto : \A k \in upto : n <= k
  IN IF r.done \/ IsGarbage(r.st, id) \/ Len(r.st.lits[id]) < 3 THEN r
     ELSE IF upto # {}
          THEN IF Val(r.st, o[stop]) = 0 THEN r ELSE [r EXCEPT !.st = Discard(@, id)]
          ELSE [r EXCEPT !.done = TRUE, !.gates = {id} \cup
                      {d \in r.st.irr : /\ pivot \in LitsOf(r.st, d) /\ IsBinary(r.st, d, pivot)
                                        /\ -Second(r.st, d, pivot) \in ToSet(o)}]

\* Both start by marking the binary clauses and stop when the pivot is set.
FoundGates(x) == [st |-> x.st, gates |-> x.gates]
SearchMarked(m, pivot, visit(_, _, _)) ==
  IF m.st.unsat \/ Val(m.st, pivot) # 0 THEN [st |-> m.st, gates |-> {}]
  ELSE FoundGates(FoldLeft(LAMBDA x, id : visit(x, id, pivot),
                           [st |-> m.st, gates |-> {}, marked |-> m.marked, done |-> FALSE],
                           Occs(m.st, -pivot)))
Search(r, pivot, visit(_, _, _), kind) ==
  IF kind \notin GateKinds \/ r.st.unsat \/ Val(r.st, pivot) # 0 \/ r.gates # {} THEN r
  ELSE SearchMarked(Marked(r.st, pivot), pivot, visit)

-----------------------------------------------------------------------------
\* get_ternary_clause, get_clause and the functions that match a clause pass
\* over true literals as well as over false ones.
Matching(st, C) == {id \in st.irr : ToSet(Unassigned(st, id)) = C}

\* find_if_then_else: pivot = (-b ? -c : -e).
IfThenElse(st, pivot) ==
  LET ternary == {id \in st.irr : pivot \in LitsOf(st, id) /\ Len(Unassigned(st, id)) = 3}
      \* what get_ternary_clause finds, with the pivot swapped to the front
      unassigned(id) == Unassigned(st, id)
      others(id) == IF Last(unassigned(id)) = pivot THEN Reverse(Front(unassigned(id)))
                    ELSE Without(unassigned(id), pivot)
      \* the order of the other literals: swapped unless they already clash
      pairs == {<<i, j, n>> \in ternary \X ternary \X {1, 2} :
                 LET bi == others(i)[1] ci == others(i)[2] bj == others(j)[n] cj == others(j)[3 - n]
                 IN /\ i < j /\ bi = -bj /\ Idx(ci) # Idx(cj)
                    /\ Matching(st, {-pivot, bi, -ci}) # {} /\ Matching(st, {-pivot, bj, -cj}) # {}}
      gate(q) == {q[1], q[2]}
                 \cup Oldest(Matching(st, {-pivot, others(q[1])[1], -others(q[1])[2]}))
                 \cup Oldest(Matching(st, {-pivot, others(q[2])[q[3]], -others(q[2])[3 - q[3]]}))
      first == CHOOSE q \in pairs :
                 \A p \in pairs : q[1] < p[1] \/ (q[1] = p[1] /\ q[2] <= p[2])
  IN IF pairs = {} THEN {} ELSE gate(first)

\* find_xor_gate: all clauses with an even number of literals negated.
Flips(C) == {(C \ S) \cup Negated(S) : S \in {T \in SUBSET C : Cardinality(T) % 2 = 0}}
Xor(st, pivot) ==
  LET bases == {id \in st.irr : /\ pivot \in LitsOf(st, id)
                                /\ Len(Unassigned(st, id)) \in 3 .. ElimXorLim + 1
                                /\ \A C \in Flips(ToSet(Unassigned(st, id))) : Matching(st, C) # {}}
  IN UNION {Oldest(Matching(st, C)) : C \in
              UNION {Flips(ToSet(Unassigned(st, id))) : id \in IF bases = {} THEN {} ELSE Oldest(bases)}}

TryGate(r, pivot, kind, find(_, _)) ==
  IF kind \notin GateKinds \/ r.st.unsat \/ Val(r.st, pivot) # 0 \/ r.gates # {} THEN r
  ELSE [r EXCEPT !.gates = find(r.st, pivot)]

\* find_gate_clauses
FindGates(st, pivot) ==
  LET e == Search([st |-> st, gates |-> {}], pivot, EquivalenceWith, "equivalence")
      a == Search(Search(e, pivot, AndGateWith, "and"), -pivot, AndGateWith, "and")
  IN TryGate(TryGate(a, pivot, "ite", IfThenElse), pivot, "xor", Xor)
=============================================================================
