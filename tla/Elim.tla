-------------------------------- MODULE Elim --------------------------------
(***************************************************************************)
(* Bounded variable elimination (elim.cpp) of one pivot, with the backward *)
(* subsumption of the resolvents (backward.cpp).  There are no watches:    *)
(* units are propagated over occurrence lists, and those derived while     *)
(* resolvents are added only when the round has ended.                     *)
(***************************************************************************)
EXTENDS Gates

CONSTANTS ElimBound, ElimClsLim, ElimOccLim

ASSUME ElimAssumption == ElimBound \in -1 .. 16 /\ ElimClsLim \in Nat /\ ElimOccLim \in Nat

Size(st, id) == Len(st.lits[id])
HasTrue(st, id, pivot) == \E l \in LitsOf(st, id) \ {pivot} : Val(st, l) > 0

\* elim_on_the_fly_self_subsumption
StrengthenOnTheFly(st, id, pivot) ==
  Discard(NewIrredundant(st, SelectSeq(st.lits[id], LAMBDA l : l # pivot /\ Val(st, l) = 0)), id)

\* The first literal of d that is true or clashes with a literal of C, or 0.
Stop(st, d, pivot, C) ==
  LET s == SelectSeq(st.lits[d], LAMBDA l : l # -pivot /\ (Val(st, l) > 0 \/ (Val(st, l) = 0 /\ -l \in C)))
  IN IF s = <<>> THEN 0 ELSE s[1]

\* resolve_clauses once it is known that there is a resolvent.
Resolvent(st, c, pivot, d, left, right, r, eager) ==
  LET none(s) == [st |-> s, resolvent |-> <<>>]
      subsumesC == Len(left) = Len(r)
      subsumesD == Len(right) = Len(r)
  IN CASE Len(r) = 0 -> none(LearnEmpty(st))
       [] Len(r) = 1 -> none(IF eager THEN ElimPropagate(st, r[1]) ELSE AssignUnit(st, r[1]))
       [] Len(r) > 1 /\ subsumesC /\ subsumesD -> none(Discard(StrengthenOnTheFly(st, c, pivot), d))
       [] Len(r) > 1 /\ subsumesC /\ ~subsumesD -> none(StrengthenOnTheFly(st, c, pivot))
       [] Len(r) > 1 /\ ~subsumesC /\ subsumesD -> none(StrengthenOnTheFly(st, d, -pivot))
       [] OTHER -> [st |-> st, resolvent |-> r]

ResolveOrdered(st, c, pivot, d, eager) ==
  LET left == Without(Unassigned(st, c), pivot)
      right == Without(Unassigned(st, d), -pivot)
      stop == Stop(st, d, pivot, ToSet(left))
      r == left \o SelectSeq(right, LAMBDA l : l \notin ToSet(left))
  IN IF HasTrue(st, c, pivot) THEN [st |-> Discard(st, c), resolvent |-> <<>>]
     ELSE IF stop # 0
     THEN [st |-> IF Val(st, stop) > 0 THEN Discard(st, d) ELSE st, resolvent |-> <<>>]
     ELSE Resolvent(st, c, pivot, d, left, right, r, eager)

Resolve(st, c, pivot, d, eager) ==
  IF IsGarbage(st, c) \/ IsGarbage(st, d) THEN [st |-> st, resolvent |-> <<>>]
  ELSE IF Size(st, c) > Size(st, d) THEN ResolveOrdered(st, d, -pivot, c, eager)
  ELSE ResolveOrdered(st, c, pivot, d, eager)

\* Occurrences of the pivot, shorter clauses first.
BySize(st, s) == SortSeq(s, LAMBDA a, b : Size(st, a) < Size(st, b) \/ (Size(st, a) = Size(st, b) /\ a < b))

\* The pairs of clauses to resolve, in the order of the two nested loops.
Pairs(ps, ns, gates) ==
  LET all == [n \in 1 .. Len(ps) * Len(ns) |-> <<ps[1 + (n - 1) \div Len(ns)], ns[1 + ((n - 1) % Len(ns))]>>]
  IN SelectSeq(all, LAMBDA q : gates = {} \/ ((q[1] \in gates) # (q[2] \in gates)))

\* elim_resolvents_are_bounded; bounded is decided when done.
Counted(r, x, pivot, bound) ==
  IF x.resolvent # <<>>
  THEN [r EXCEPT !.n = @ + 1, !.done = Len(x.resolvent) > ElimClsLim \/ r.n + 1 > bound]
  ELSE [r EXCEPT !.st = x.st, !.done = x.st.unsat \/ Val(x.st, pivot) # 0]
CountResolvent(r, q, pivot, bound) ==
  IF r.done THEN r ELSE Counted(r, Resolve(r.st, q[1], pivot, q[2], TRUE), pivot, bound)

Bounded(st, pivot, ps, ns, gates) ==
  IF ps = <<>> \/ ns = <<>> THEN [st |-> st, n |-> 0, done |-> ElimBound < 0]
  ELSE FoldLeft(LAMBDA r, q : CountResolvent(r, q, pivot, Len(ps) + Len(ns) + ElimBound),
                [st |-> st, n |-> 0, done |-> FALSE], Pairs(ps, ns, gates))

\* elim_add_resolvents
Added(r, x) ==
  IF x.resolvent = <<>> THEN [r EXCEPT !.st = x.st]
  ELSE [st |-> NewIrredundant(x.st, x.resolvent), backward |-> Append(r.backward, Len(x.st.lits) + 1)]
AddResolvent(r, q, pivot) ==
  IF r.st.unsat THEN r ELSE Added(r, Resolve(r.st, q[1], pivot, q[2], FALSE))

AddResolvents(st, pivot, ps, ns, gates) ==
  FoldLeft(LAMBDA r, q : AddResolvent(r, q, pivot), [st |-> st, backward |-> <<>>], Pairs(ps, ns, gates))

\* Mutant: clauses with the negated pivot are not pushed.
WeakenPositive(st, id, pivot, gates) ==
  IF IsGarbage(st, id) THEN st
  ELSE Discard(IF pivot < 0 THEN st ELSE PushClause(st, {pivot}, id), id)

\* mark_eliminated_clauses_as_garbage; with a gate only its clauses are pushed.
Weaken(st, id, pivot, gates) ==
  IF IsGarbage(st, id) THEN st
  ELSE Discard(IF gates = {} \/ id \in gates THEN PushClause(st, {pivot}, id) ELSE st, id)

MarkEliminated(st, pivot, ps, ns, gates) ==
  LET p == FoldLeft(LAMBDA s, id : Weaken(s, id, pivot, gates), st, ps)
  IN FlushOccs(FoldLeft(LAMBDA s, id : Weaken(s, id, -pivot, gates), p, ns), Idx(pivot))

-----------------------------------------------------------------------------
\* elim_backward_clause: what is found going over the literals of d.  The size
\* is changed for good when a second negated literal is met.
Scan(st, d, marked, size) ==
  FoldLeft(LAMBDA x, l :
             IF x.done \/ Val(st, l) < 0 THEN x
             ELSE CASE Val(st, l) > 0 -> [x EXCEPT !.satisfied = TRUE, !.done = TRUE]
                    [] Val(st, l) = 0 /\ l \in marked ->
                         [x EXCEPT !.found = @ + 1, !.done = x.found + 1 = size]
                    [] Val(st, l) = 0 /\ -l \in marked /\ x.negated = 0 ->
                         [x EXCEPT !.found = @ + 1, !.negated = l, !.done = x.found + 1 = size]
                    [] Val(st, l) = 0 /\ -l \in marked /\ x.negated # 0 ->
                         [x EXCEPT !.useless = TRUE, !.done = TRUE]
                    [] OTHER -> x,
           [satisfied |-> FALSE, negated |-> 0, found |-> 0, useless |-> FALSE, done |-> FALSE], st.lits[d])

\* Whether the literals of d but 'negated' are one unassigned one, go on to a
\* true one before a second unassigned one, or neither.
RestOf(st, d, negated) == SelectSeq(st.lits[d], LAMBDA l : l # negated /\ Val(st, l) >= 0)
MeetsTrue(st, o) == \E n \in DOMAIN o : n <= 2 /\ Val(st, o[n]) > 0 /\ (n = 1 \/ Val(st, o[1]) = 0)

Strengthen(r, d, l) ==
  IF Length(r.st, l) > ElimOccLim THEN r
  ELSE [r EXCEPT !.st.lits[d] = Without(@, l),
                 !.queue = IF d \in ToSet(@) THEN @ ELSE Append(@, d)]

\* Without the literal negated, o are the others of d.
Shorten(r, d, negated, o) ==
  IF MeetsTrue(r.st, o) THEN [r EXCEPT !.st = Discard(@, d), !.satisfied = TRUE]
  ELSE IF Len(o) = 1 THEN [r EXCEPT !.st = ElimPropagate(@, o[1]), !.done = TRUE]
  ELSE Strengthen(r, d, negated)

Scanned(r, d, x) ==
  IF r.satisfied \/ x.satisfied THEN [r EXCEPT !.st = Discard(@, d), !.satisfied = TRUE, !.useless = x.useless]
  ELSE IF x.useless \/ x.found # r.size THEN [r EXCEPT !.useless = x.useless]
  ELSE IF x.negated = 0 THEN [r EXCEPT !.st = Discard(@, d)]
  ELSE Shorten(r, d, x.negated, RestOf(r.st, d, x.negated))

\* One clause d of the list; 'satisfied' is not reset before the next one.
BackwardWith(r, c, d, marked) ==
  IF r.done \/ d = c \/ IsGarbage(r.st, d) \/ r.useless \/ Size(r.st, d) < r.size THEN r
  ELSE Scanned(r, d, Scan(r.st, d, marked, r.size))

BackwardAlong(r, c, best, marked) ==
  IF Length(r.st, best) > ElimOccLim THEN r
  ELSE FoldLeft(LAMBDA x, d : BackwardWith(x, c, d, marked), r, Occs(r.st, best))

\* The first of the literals with the shortest lists.
Rarest(st, s) ==
  FoldLeft(LAMBDA best, l : IF Length(st, l) < Length(st, best) THEN l ELSE best, s[1], s)

BackwardClause(st, queue, c) ==
  LET r == [st |-> st, queue |-> queue, size |-> Len(Unassigned(st, c)), satisfied |-> FALSE,
            useless |-> FALSE, done |-> FALSE]
  IN IF IsGarbage(st, c) THEN r
     ELSE IF HasTrue(st, c, 0) THEN [r EXCEPT !.st = Discard(@, c)]
     ELSE IF Unassigned(st, c) = <<>> THEN r
     ELSE BackwardAlong(r, c, Rarest(st, Unassigned(st, c)), ToSet(Unassigned(st, c)))

RECURSIVE Backward(_, _)
BackwardNext(r) == Backward(r.st, r.queue)
Backward(st, queue) ==
  IF st.unsat \/ queue = <<>> THEN st ELSE BackwardNext(BackwardClause(st, Tail(queue), Head(queue)))

-----------------------------------------------------------------------------
\* With the occurrences ps and ns as they were before gates were looked for.
Dropped(st, pivot, queue) ==
  Backward(IF Active(st, pivot) THEN Mark(st, pivot, "eliminated") ELSE st, queue)

Replaced(a, pivot, ps, ns, gates) ==
  Dropped(IF a.st.unsat THEN a.st ELSE MarkEliminated(a.st, pivot, ps, ns, gates), pivot, a.backward)

Eliminated(b, pivot, ps, ns, gates) ==
  IF b.done THEN b.st ELSE Replaced(AddResolvents(b.st, pivot, ps, ns, gates), pivot, ps, ns, gates)

EliminateWith(g, pivot, ps, ns) ==
  IF g.st.unsat \/ Val(g.st, pivot) # 0 THEN g.st
  ELSE Eliminated(Bounded(g.st, pivot, ps, ns, g.gates), pivot, ps, ns, g.gates)

EliminatePivot(st, pivot, ps, ns) ==
  IF ps # <<>> /\ Len(ns) > ElimOccLim THEN st
  ELSE EliminateWith(IF ps # <<>> THEN FindGates(st, pivot) ELSE [st |-> st, gates |-> {}], pivot, ps, ns)

EliminateSign(st, pivot) == EliminatePivot(st, pivot, BySize(st, Occs(st, pivot)), BySize(st, Occs(st, -pivot)))

\* try_to_eliminate_variable, for the sign that occurs less often.
TryToEliminate(st, v) ==
  EliminateSign(FlushOccs(st, v), IF Len(Occs(st, v)) > Len(Occs(st, -v)) THEN -v ELSE v)
=============================================================================
