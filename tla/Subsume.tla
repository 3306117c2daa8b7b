------------------------------ MODULE Subsume ------------------------------
(***************************************************************************)
(* The techniques that compare the clauses with each other: subsumption    *)
(* and strengthening (subsume.cpp), duplicated binary clauses              *)
(* (deduplicate.cpp), transitive reduction (transred.cpp) and hyper        *)
(* ternary resolution (ternary.cpp).  One clause or pair at a time; which  *)
(* are tried is left open.                                                 *)
(***************************************************************************)
EXTENDS Decompose

CONSTANTS SubsumeClsLim, TernaryOccLim

ASSUME SubsumeAssumption == SubsumeClsLim \in Nat /\ TernaryOccLim \in Nat

Clean(st, id) == \A l \in LitsOf(st, id) : Val(st, l) = 0

\* A redundant clause that subsumes an irredundant one becomes irredundant.
SubsumeClause(st, e, c) ==
  IF c \in st.red \/ e \in st.irr THEN MarkGarbage(st, c)
  ELSE MarkGarbage([st EXCEPT !.irr = @ \cup {e}, !.red = @ \ {e}], c)

\* strengthen_clause
StrengthenClause(st, c, l) == [st EXCEPT !.lits[c] = Without(@, l)]

\* subsume_check: the literals of e that are not in c.
Flipped(st, e, c) == LitsOf(st, e) \ LitsOf(st, c)

\* What try_to_subsume_clause may do to c with a clause e of the lists.
CanSubsume(st, e, c) ==
  /\ {e, c} \subseteq Live(st) /\ e # c /\ Size(st, c) \in 3 .. SubsumeClsLim /\ Size(st, e) <= Size(st, c)
  /\ Clean(st, e) /\ Clean(st, c)
  /\ Cardinality(Flipped(st, e, c)) <= 1 /\ Negated(Flipped(st, e, c)) \subseteq LitsOf(st, c)
TryToSubsume(st, e, c) ==
  IF Flipped(st, e, c) = {} THEN SubsumeClause(st, e, c)
  ELSE StrengthenClause(st, c, -CHOOSE l \in Flipped(st, e, c) : TRUE)

-----------------------------------------------------------------------------
\* mark_duplicated_binary_clauses_as_garbage: the binary clauses of lit.
Binaries(st, lit) ==
  SelectSeq([id \in DOMAIN st.lits |-> id],
            LAMBDA id : id \in Live(st) /\ lit \in LitsOf(st, id) /\ Size(st, id) = 2)
OtherOf(st, id, lit) == Without(st.lits[id], lit)[1]

\* x.seen: for each literal met the clause it was met in.
DuplicateOf(x, c, other) ==
  LET d == CHOOSE d \in x.seen : OtherOf(x.st, d, x.lit) = other
  IN IF c \in x.st.irr THEN [x EXCEPT !.st = MarkGarbage(@, d), !.seen = (@ \ {d}) \cup {c}]
     ELSE [x EXCEPT !.st = MarkGarbage(@, c)]
VisitBinary(x, c) ==
  LET other == OtherOf(x.st, c, x.lit)
      met(l) == \E d \in x.seen : OtherOf(x.st, d, x.lit) = l
  IN IF x.unit THEN x
     ELSE CASE met(other) -> DuplicateOf(x, c, other)
            [] met(-other) -> [x EXCEPT !.unit = TRUE]
            [] OTHER -> [x EXCEPT !.seen = @ \cup {c}]
Deduplicated(x) == IF x.unit THEN AssignUnit(x.st, x.lit) ELSE x.st
Deduplicate(st, lit) ==
  Deduplicated(FoldLeft(VisitBinary, [st |-> st, lit |-> lit, seen |-> {}, unit |-> FALSE], Binaries(st, lit)))

-----------------------------------------------------------------------------
\* transred: the literals reached from src over other binary clauses, only
\* irredundant ones if the clause is irredundant.
RECURSIVE Reached(_, _, _)
ReachedFrom(st, ids, L, new) == IF new \subseteq L THEN L ELSE Reached(st, ids, L \cup new)
Reached(st, ids, L) ==
  ReachedFrom(st, ids, L, {k \in Lit : \E id \in ids, l \in L : LitsOf(st, id) = {-l, k}})

OtherBinaries(st, c) ==
  {d \in IF c \in st.irr THEN st.irr ELSE Live(st) : d # c /\ Size(st, d) = 2}

Transitive(st, c, src) ==
  \E L \in {Reached(st, OtherBinaries(st, c), {src})} : \E dst \in LitsOf(st, c) \ {-src} : dst \in L
Failed(st, c, src) ==
  \E L \in {Reached(st, OtherBinaries(st, c), {src})} : \E l \in L : -l \in L

-----------------------------------------------------------------------------
\* hyper_ternary_resolve
TernaryResolvent(st, c, d, pivot) == (LitsOf(st, c) \ {pivot}) \cup (LitsOf(st, d) \ {-pivot})

\* The binary and ternary clauses connected, and the literal of R with fewest.
Connected(st, l) == {id \in Live(st) : Size(st, id) <= 3 /\ Clean(st, id) /\ l \in LitsOf(st, id)}
Busy(st, R) == \A l \in R : Cardinality(Connected(st, l)) > TernaryOccLim

\* ternary_find_binary_clause and ternary_find_ternary_clause
Found(st, R) == Busy(st, R) \/ \E l \in R : \E id \in Connected(st, l) : LitsOf(st, id) \subseteq R

CanResolve(st, c, d, pivot) ==
  /\ {c, d} \subseteq Live(st) /\ Size(st, c) = 3 /\ Size(st, d) = 3 /\ Clean(st, c) /\ Clean(st, d)
  /\ pivot \in LitsOf(st, c) /\ -pivot \in LitsOf(st, d)
  /\ \A l \in {pivot, -pivot} : Cardinality(Connected(st, l)) <= TernaryOccLim
  /\ \E R \in {TernaryResolvent(st, c, d, pivot)} :
       Cardinality(R) <= 3 /\ Negated(R) \cap R = {} /\ ~Found(st, R)

\* A ternary resolvent is redundant, a binary one replaces both clauses.
AddTernary(st, c, d, R) ==
  LET id == Len(st.lits) + 1
      new == [st EXCEPT !.lits = Append(@, SetToSeq(R))]
      binary == IF c \in st.red /\ d \in st.red THEN [new EXCEPT !.red = @ \cup {id}]
                ELSE [new EXCEPT !.irr = @ \cup {id}]
  IN IF Cardinality(R) = 3 THEN [new EXCEPT !.red = @ \cup {id}]
     ELSE MarkGarbage(MarkGarbage(binary, c), d)

=============================================================================
