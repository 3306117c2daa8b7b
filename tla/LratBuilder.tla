---------------------------- MODULE LratBuilder ----------------------------
(***************************************************************************)
(* The builder of antecedents for LRAT proofs: a propagation engine with   *)
(* reasons that takes clauses and, unlike the checker of DRUP proofs, also *)
(* gives up units again when the clause they came from is deleted.         *)
(* Clauses are known by their ids; tautologies are left out.               *)
(***************************************************************************)
EXTENDS Integers, Sequences, FiniteSets, SequencesExt, FiniteSetsExt

CONSTANTS
  MaxVar,
  Inputs    \* the literals of each clause, by id

LratBuilderAssumption ==
  MaxVar \in 0 .. 15 /\ Inputs \in Seq(Seq(-MaxVar .. MaxVar \ {0}))

VARIABLES
  lits,         \* of each allocated clause, watched literals first
  clauses,      \* ids in the hash table
  garbage,      \* ids deleted from it and still allocated
  watchers,     \* for each literal, watches with blit, size, clause
  unit_clauses, \* ids of the clauses of size one
  trail, next_to_propagate,
  reasons,      \* of each variable, 0 if none
  unit_reasons, \* of each variable, a clause of size one or 0
  inconsistent_clause, inconsistent_chain, \* 0 if not inconsistent
  chain,        \* the result of the last call
  failed,       \* no chain could be built
  size_clauses, size_vars

store == <<lits, clauses, garbage, watchers, unit_clauses>>
assignment == <<trail, next_to_propagate, reasons>>
refutation == <<inconsistent_clause, inconsistent_chain>>
builderVars == <<store, assignment, unit_reasons, refutation, chain, failed, size_clauses, size_vars>>

Var == 1 .. MaxVar
Lit == Var \cup {-v : v \in Var}
Id == DOMAIN Inputs
Idx(l) == IF l < 0 THEN -l ELSE l
Value(t, l) == IF Contains(t, l) THEN 1 ELSE IF Contains(t, -l) THEN -1 ELSE 0
Inconsistent == inconsistent_clause # 0
Simplified(c) == SetToSortSeq(ToSet(c), LAMBDA k, l : Idx(k) < Idx(l))
Import(c) ==
  size_vars' = Min({n \in {0, 2, 4, 8, 16} : n >= size_vars /\ \A l \in ToSet(c) : Idx(l) < n})

BuilderInit ==
  /\ lits = [id \in Id |-> <<>>] /\ clauses = {} /\ garbage = {}
  /\ watchers = [l \in Lit |-> <<>>] /\ unit_clauses = <<>>
  /\ trail = <<>> /\ next_to_propagate = 0
  /\ reasons = [v \in Var |-> 0] /\ unit_reasons = [v \in Var |-> 0]
  /\ inconsistent_clause = 0 /\ inconsistent_chain = <<>>
  /\ chain = <<>> /\ failed = FALSE
  /\ size_clauses = 0 /\ size_vars = 0

-----------------------------------------------------------------------------
\* Propagation; st holds what it changes.  conflict is 0 if there is none.
State == [trail |-> trail, next |-> next_to_propagate, reasons |-> reasons,
          conflict |-> 0, kept |-> <<>>, lits |-> lits, watchers |-> watchers,
          units |-> unit_clauses, clauses |-> clauses]
AssignReason(st, l, id) == [st EXCEPT !.trail = Append(@, l), !.reasons[Idx(l)] = id]
Conflict(st, id) == [st EXCEPT !.conflict = id]
Kept(st, w) == [st EXCEPT !.kept = Append(@, w)]

VisitUnit(st, id) ==
  LET l == st.lits[id][1]
      kept == [st EXCEPT !.units = Append(@, id)]
  IN IF st.conflict # 0 THEN kept
     ELSE IF id \notin st.clauses THEN st
     ELSE IF Value(st.trail, l) > 0 THEN kept
     ELSE IF Value(st.trail, l) = 0 THEN AssignReason(kept, l, id) ELSE Conflict(kept, id)
UnitPropagate(st) == FoldLeft(VisitUnit, [st EXCEPT !.units = <<>>], st.units)

VisitBinary(st, w) ==
  IF Value(st.trail, w.blit) < 0 THEN Conflict(Kept(st, w), w.clause)
  ELSE AssignReason(Kept(st, w), w.blit, w.clause)

VisitLong(st, falsified, w) ==
  LET c == st.lits[w.clause]
      other == IF c[1] = falsified THEN c[2] ELSE c[1]
      unfalsified == {k \in 3 .. Len(c) : Value(st.trail, c[k]) >= 0}
      ordered == [c EXCEPT ![1] = other, ![2] = falsified]
  IN IF Value(st.trail, other) > 0 THEN Kept(st, [w EXCEPT !.blit = other])
     ELSE IF unfalsified # {}
          THEN LET k == Min(unfalsified) IN
               [st EXCEPT !.lits[w.clause] = [ordered EXCEPT ![2] = c[k], ![k] = falsified],
                          !.watchers[c[k]] = Append(@, [w EXCEPT !.blit = falsified])]
          ELSE [Kept(IF Value(st.trail, other) = 0 THEN AssignReason(st, other, w.clause)
                     ELSE Conflict(st, w.clause), w)
                 EXCEPT !.lits[w.clause] = ordered]

Visit(st, falsified, w) ==
  IF st.conflict # 0 THEN Kept(st, w)
  ELSE IF w.clause \notin st.clauses THEN st
  ELSE IF Value(st.trail, w.blit) > 0 THEN Kept(st, w)
  ELSE IF w.size = 2 THEN VisitBinary(st, w) ELSE VisitLong(st, falsified, w)

PropagateLiteral(st) ==
  LET falsified == -st.trail[st.next + 1]
      after == FoldLeft(LAMBDA s, w : Visit(s, falsified, w),
                        [st EXCEPT !.kept = <<>>, !.next = @ + 1], st.watchers[falsified])
  IN [after EXCEPT !.watchers[falsified] = after.kept, !.kept = <<>>]

Propagate(st) ==
  FoldLeft(LAMBDA s, n : IF s.conflict = 0 /\ s.next < Len(s.trail) THEN PropagateLiteral(s) ELSE s,
           UnitPropagate(st), [n \in 1 .. MaxVar |-> n])

\* The trail cut to n literals, and where propagation goes on.
Backtrack(st, n, next) ==
  [st EXCEPT !.trail = SubSeq(@, 1, n), !.next = next,
             !.reasons = [v \in Var |-> IF \E k \in n + 1 .. Len(st.trail) : Idx(st.trail[k]) = v
                                        THEN 0 ELSE @[v]]]

-----------------------------------------------------------------------------
\* construct_chain, from the end of the trail to its beginning: the reasons of
\* the variables in 'todo' and of those these reasons depend on.
ReasonOf(st, v) == IF unit_reasons[v] # 0 THEN unit_reasons[v] ELSE st.reasons[v]

ConstructChain(st, todo, justified, ids) ==
  LET visit(l, a) ==
        IF Idx(l) \notin a.todo \ a.justified THEN a
        ELSE [todo |-> a.todo \cup {Idx(k) : k \in ToSet(st.lits[ReasonOf(st, Idx(l))])},
              justified |-> a.justified \cup {Idx(l)},
              chain |-> <<ReasonOf(st, Idx(l))>> \o a.chain]
  IN FoldRight(visit, st.trail, [todo |-> todo, justified |-> justified, chain |-> ids]).chain

VarsOf(st, id) == {Idx(l) : l \in ToSet(st.lits[id])}
ProofSatisfiedLiteral(st, l) == ConstructChain(st, {Idx(l)}, {}, <<>>)
ProofInconsistentClause ==
  IF inconsistent_chain # <<>> THEN inconsistent_chain
  ELSE ConstructChain(State, VarsOf(State, inconsistent_clause), {}, <<inconsistent_clause>>)
ProofClause(st, c) ==
  ConstructChain(st, VarsOf(st, st.conflict), {Idx(l) : l \in ToSet(c)}, <<st.conflict>>)

\* The negations of the literals before the first true one are assumed.
Assumed(c) == SelectSeq([n \in DOMAIN c |-> -c[n]], LAMBDA l : Value(trail, l) = 0)
TrueLiterals(c) == {n \in DOMAIN c : Value(trail, c[n]) > 0}

\* build_chain_if_possible, as the state it leaves and the chain, if there is one.
Built(c) ==
  IF Inconsistent THEN [st |-> State, ok |-> TRUE, chain |-> ProofInconsistentClause]
  ELSE IF TrueLiterals(c) # {}
  THEN [st |-> State, ok |-> TRUE, chain |-> ProofSatisfiedLiteral(State, c[Min(TrueLiterals(c))])]
  ELSE LET st == Propagate([State EXCEPT !.trail = @ \o Assumed(c)])
           back == [Backtrack(st, Len(trail), next_to_propagate) EXCEPT !.conflict = 0]
       IN IF st.conflict = 0 THEN [st |-> back, ok |-> FALSE, chain |-> <<>>]
          ELSE [st |-> back, ok |-> TRUE, chain |-> ProofClause(st, c)]

-----------------------------------------------------------------------------
Unfalse(c, k) ==
  LET better == {j \in k + 1 .. Len(c) : Value(trail, c[j]) >= 0}
  IN IF Value(trail, c[k]) >= 0 \/ better = {} THEN c
     ELSE [c EXCEPT ![k] = c[Min(better)], ![Min(better)] = c[k]]
Watch(b, id, c) == [blit |-> b, size |-> Len(c), clause |-> id]

Inserted(st, id, c) ==
  LET ordered == IF Len(c) < 2 THEN c ELSE Unfalse(Unfalse(c, 1), 2)
      stored == [st EXCEPT !.lits[id] = ordered, !.clauses = @ \cup {id}]
  IN CASE Len(c) = 0 -> stored
       [] Len(c) = 1 -> [stored EXCEPT !.units = Append(@, id)]
       [] Len(c) > 1 ->
            [stored EXCEPT !.watchers =
               [@ EXCEPT ![ordered[1]] = Append(@, Watch(ordered[2], id, ordered)),
                         ![ordered[2]] = Append(@, Watch(ordered[1], id, ordered))]]

Become(st) ==
  /\ lits' = st.lits /\ watchers' = st.watchers /\ unit_clauses' = st.units
  /\ clauses' = st.clauses /\ trail' = st.trail
  /\ next_to_propagate' = st.next /\ reasons' = st.reasons

\* add_clause after st: the clause is empty, satisfied, false, unit or none of
\* these under the units; if the builder is inconsistent that does not matter.
AddClause(id, c, before) ==
  /\ size_clauses' = IF Cardinality(clauses) < size_clauses THEN size_clauses
                     ELSE IF size_clauses = 0 THEN 1 ELSE 2 * size_clauses
  /\ UNCHANGED garbage
  /\ \E st \in {Inserted(before, id, c)},
        unassigned \in {{l \in ToSet(c) : Value(trail, l) = 0}} :
       /\ unit_reasons' = IF ~Inconsistent /\ Len(c) = 1 /\ Cardinality(unassigned) = 1
                          THEN [unit_reasons EXCEPT ![Idx(c[1])] = id] ELSE unit_reasons
       /\ IF Inconsistent \/ TrueLiterals(c) # {} \/ Cardinality(unassigned) > 1
          THEN Become(st) /\ UNCHANGED inconsistent_clause
          ELSE IF unassigned = {} THEN Become(st) /\ inconsistent_clause' = id
          ELSE \E after \in {Propagate(AssignReason(st, CHOOSE l \in unassigned : TRUE, id))} :
                 Become(after) /\ inconsistent_clause' = after.conflict

AddOriginalClause(id) ==
  /\ Import(Inputs[id])
  /\ AddClause(id, Simplified(Inputs[id]), State)
  /\ UNCHANGED <<inconsistent_chain, chain, failed>>

AddClauseGetProof(id) ==
  /\ Import(Inputs[id])
  /\ \E c \in {Simplified(Inputs[id])} : \E b \in {Built(c)} :
       /\ chain' = b.chain /\ failed' = ~b.ok
       /\ IF b.ok
          THEN /\ AddClause(id, c, b.st)
               /\ inconsistent_chain' = IF Inconsistent THEN b.chain ELSE inconsistent_chain
          ELSE /\ Become(b.st)
               /\ UNCHANGED <<garbage, unit_reasons, refutation, size_clauses>>

-----------------------------------------------------------------------------
\* The literal whose reason is the deleted clause.
UnitFrom(id) == {n \in DOMAIN trail : reasons[Idx(trail[n])] = id}

\* Mutant: what is left of the trail is not propagated again.
RepropagatedTail(st, id) ==
  Propagate(IF UnitFrom(id) = {} THEN st
            ELSE Backtrack(st, Min(UnitFrom(id)) - 1, Min({st.next, Min(UnitFrom(id)) - 1})))

\* The trail is cut before that literal and everything propagated again.
Repropagated(st, id) ==
  Propagate(IF UnitFrom(id) = {} THEN [st EXCEPT !.next = 0]
            ELSE Backtrack(st, Min(UnitFrom(id)) - 1, 0))

\* collect_garbage_clauses
Collected(st, G) ==
  [st EXCEPT !.lits = [id \in Id |-> IF id \in G THEN <<>> ELSE @[id]],
             !.units = SelectSeq(@, LAMBDA id : id \notin G),
             !.watchers = [l \in Lit |-> SelectSeq(@[l], LAMBDA w : w.clause \notin G)]]

DeleteClause(id) ==
  /\ id \in clauses
  /\ Import(Inputs[id])
  /\ unit_reasons' = [v \in Var |-> IF unit_reasons[v] = id THEN 0 ELSE unit_reasons[v]]
  /\ UNCHANGED <<chain, failed, size_clauses>>
  /\ \E again \in {UnitFrom(id) # {} \/ inconsistent_clause = id},
        deleted \in {[State EXCEPT !.clauses = @ \ {id}]},
        G \in {garbage \cup {id}} :
     \E st \in {IF again THEN Repropagated(deleted, id) ELSE deleted} :
       /\ IF again THEN inconsistent_clause' = st.conflict /\ inconsistent_chain' = <<>>
          ELSE UNCHANGED refutation
       /\ IF 2 * Cardinality(G) > Max({size_clauses, size_vars'})
          THEN Become(Collected(st, G)) /\ garbage' = {}
          ELSE Become(st) /\ garbage' = G

-----------------------------------------------------------------------------
\* State by their types.
BuilderTypeOK ==
  /\ clauses \subseteq Id /\ garbage \subseteq Id \ clauses
  /\ lits \in [Id -> Seq(Lit)]
  /\ watchers \in [Lit -> Seq([blit : Lit, size : Nat, clause : Id])]
  /\ unit_clauses \in Seq(Id)
  /\ trail \in Seq(Lit) /\ next_to_propagate \in 0 .. Len(trail)
  /\ reasons \in [Var -> {0} \cup Id] /\ unit_reasons \in [Var -> {0} \cup Id]
  /\ inconsistent_clause \in {0} \cup Id
  /\ inconsistent_chain \in Seq(Id) /\ chain \in Seq(Id) /\ failed \in BOOLEAN

\* A literal of the trail has a reason that was not deleted and whose other
\* literals were false before it: deletions keep the trail in the order in
\* which its literals follow from each other.
TrailJustified ==
  /\ \A v \in Var : reasons[v] # 0 => \E n \in DOMAIN trail : Idx(trail[n]) = v
  /\ \A n \in DOMAIN trail :
       /\ reasons[Idx(trail[n])] \in clauses
       /\ \A v \in {unit_reasons[Idx(trail[n])], reasons[Idx(trail[n])]} \ {0} :
            /\ v \in clauses /\ trail[n] \in ToSet(lits[v])
            /\ \A l \in ToSet(lits[v]) \ {trail[n]} : \E k \in 1 .. n - 1 : trail[k] = -l

\* No watch and no entry of unit_clauses points to a clause that was freed.
NoDanglingWatch ==
  /\ \A l \in Lit : \A w \in ToSet(watchers[l]) : w.clause \in clauses \cup garbage
  /\ ToSet(unit_clauses) \subseteq clauses \cup garbage
=============================================================================
