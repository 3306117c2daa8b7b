------------------------------ MODULE Checker ------------------------------
(***************************************************************************)
(* The online forward checker of DRUP proofs: clauses in a hash table and  *)
(* two watches each, a trail of units that is never undone, checks on top  *)
(* of it that are, and clauses deleted in two steps: out of the table at   *)
(* once, out of the watches when garbage is collected.                     *)
(* The hash is computed from the id, so the table is a set of ids here.    *)
(***************************************************************************)
EXTENDS Integers, Sequences, FiniteSets, SequencesExt, FiniteSetsExt

CONSTANTS MaxVar, Inputs, Originals
CheckerAssumption ==
  MaxVar \in 0 .. 15 /\ Inputs \in Seq(Seq(-MaxVar .. MaxVar \ {0})) /\ Originals \subseteq DOMAIN Inputs

VARIABLES
  live, seen, verdict, \* the proof so far, and the result
  lits,         \* the literals of each allocated clause, watched ones first
  clauses,      \* ids in the hash table
  garbage,      \* ids deleted from it and still allocated
  watchers,     \* for each literal, watches with blit, size, clause
  trail, next_to_propagate,
  size_clauses, size_vars  \* capacities, on which collections depend

store == <<lits, clauses, garbage, watchers>>
search == <<trail, next_to_propagate>>
vars == <<live, seen, verdict, store, search, size_clauses, size_vars>>

Id == DOMAIN Inputs
Lit == (1 .. MaxVar) \cup {-v : v \in 1 .. MaxVar}
Idx(l) == IF l < 0 THEN -l ELSE l
Value(t, l) == IF Contains(t, l) THEN 1 ELSE IF Contains(t, -l) THEN -1 ELSE 0

Init ==
  /\ live = {} /\ seen = {} /\ verdict = "ok"
  /\ lits = [id \in Id |-> <<>>] /\ clauses = {} /\ garbage = {}
  /\ watchers = [l \in Lit |-> <<>>]
  /\ trail = <<>> /\ next_to_propagate = 0
  /\ size_clauses = 0 /\ size_vars = 0

\* The clause without duplicates, by variable.
Simplified(c) == SetToSortSeq(ToSet(c), LAMBDA k, l : Idx(k) < Idx(l))
Tautological(c) == \E l \in ToSet(c) : -l \in ToSet(c) \/ Value(trail, l) > 0
Import(c) ==
  size_vars' = Min({n \in {0, 2, 4, 8, 16} : n >= size_vars /\ \A l \in ToSet(c) : Idx(l) < n})

-----------------------------------------------------------------------------
\* Propagation.  st holds what it changes, and the watches kept of the
\* falsified literal.
Assigned(st, l) == [st EXCEPT !.trail = Append(@, l)]
Kept(st, w) == [st EXCEPT !.kept = Append(@, w)]

\* A binary clause propagates even when it is garbage.
VisitBinary(st, w) ==
  IF Value(st.trail, w.blit) < 0 THEN [Kept(st, w) EXCEPT !.ok = FALSE]
  ELSE Assigned(Kept(st, w), w.blit)

VisitLong(st, falsified, w) ==
  LET c == st.lits[w.clause]
      other == IF c[1] = falsified THEN c[2] ELSE c[1]
      unfalsified == {k \in 3 .. Len(c) : Value(st.trail, c[k]) >= 0}
      ordered == [c EXCEPT ![1] = other, ![2] = falsified]
  IN IF w.clause \notin clauses THEN st
     ELSE IF Value(st.trail, other) > 0 THEN Kept(st, [w EXCEPT !.blit = other])
     ELSE IF unfalsified # {}
          THEN LET k == Min(unfalsified) IN
               [st EXCEPT !.lits[w.clause] = [ordered EXCEPT ![2] = c[k], ![k] = falsified],
                          !.watchers[c[k]] = Append(@, [w EXCEPT !.blit = falsified])]
          ELSE [Kept(IF Value(st.trail, other) = 0 THEN Assigned(st, other) ELSE [st EXCEPT !.ok = FALSE], w)
                 EXCEPT !.lits[w.clause] = ordered]

Visit(st, falsified, w) ==
  IF ~st.ok \/ Value(st.trail, w.blit) > 0 THEN Kept(st, w)
  ELSE IF w.size = 2 THEN VisitBinary(st, w) ELSE VisitLong(st, falsified, w)

PropagateLiteral(st) ==
  LET falsified == -st.trail[st.next + 1]
      after == FoldLeft(LAMBDA s, w : Visit(s, falsified, w),
                        [st EXCEPT !.kept = <<>>, !.next = @ + 1], st.watchers[falsified])
  IN [after EXCEPT !.watchers[falsified] = after.kept]

Propagate(st) ==
  FoldLeft(LAMBDA s, n : IF s.ok /\ s.next < Len(s.trail) THEN PropagateLiteral(s) ELSE s,
           st, [n \in 1 .. MaxVar |-> n])

\* assign or assume the literals of a sequence, then propagate.
State == [trail |-> trail, next |-> next_to_propagate, ok |-> TRUE, kept |-> <<>>,
          lits |-> lits, watchers |-> watchers]
Propagation(st, ls) ==
  Propagate([st EXCEPT !.trail = @ \o SelectSeq(ls, LAMBDA l : Value(st.trail, l) = 0)])

Backtracked(st) == [st EXCEPT !.trail = trail, !.next = next_to_propagate, !.ok = TRUE]

-----------------------------------------------------------------------------
\* new_clause: literals that are not false go first.
Unfalse(c, k) ==
  LET better == {j \in k + 1 .. Len(c) : Value(trail, c[j]) = 0}
  IN IF Value(trail, c[k]) = 0 \/ better = {} THEN c
     ELSE [c EXCEPT ![k] = c[Min(better)], ![Min(better)] = c[k]]
Watched(ws, id, c) ==
  [ws EXCEPT ![c[1]] = Append(@, [blit |-> c[2], size |-> Len(c), clause |-> id]),
             ![c[2]] = Append(@, [blit |-> c[1], size |-> Len(c), clause |-> id])]

Insert(id, c, st) ==
  /\ clauses' = clauses \cup {id}
  /\ size_clauses' = IF Cardinality(clauses) < size_clauses THEN size_clauses
                     ELSE IF size_clauses = 0 THEN 1 ELSE 2 * size_clauses
  /\ \E ordered \in {Unfalse(Unfalse(c, 1), 2)} :
       /\ lits' = [st.lits EXCEPT ![id] = ordered]
       /\ watchers' = Watched(st.watchers, id, ordered)
  /\ UNCHANGED <<verdict, search>>

Settle(st) ==
  /\ lits' = st.lits /\ watchers' = st.watchers
  /\ trail' = st.trail /\ next_to_propagate' = st.next
  /\ verdict' = IF st.ok THEN "ok" ELSE "inconsistent"
  /\ UNCHANGED <<clauses, size_clauses>>

\* add_clause, after the check, which left st.
AddClause(id, st) ==
  \E c \in {Simplified(Inputs[id])} :
  \E rest \in {SelectSeq(c, LAMBDA l : Value(trail, l) = 0)} :
    CASE Len(rest) = 0 -> Settle([st EXCEPT !.ok = FALSE])
      [] Len(rest) = 1 -> Settle(Propagation(st, rest))
      [] Len(rest) > 1 -> Insert(id, c, st)

Ignore == UNCHANGED <<verdict, store, search, size_clauses>>

Record(id) ==
  /\ verdict = "ok" /\ id \notin seen
  /\ live' = live \cup {id} /\ seen' = seen \cup {id}
  /\ Import(Inputs[id])

AddOriginalClause(id) ==
  /\ id \in Originals /\ Record(id)
  /\ IF Tautological(Inputs[id]) THEN Ignore
     ELSE AddClause(id, State) /\ UNCHANGED garbage

Check(id) == Propagation(State, [n \in DOMAIN Simplified(Inputs[id]) |-> -Simplified(Inputs[id])[n]])

AddDerivedClause(id) ==
  /\ id \notin Originals
  /\ IF Tautological(Inputs[id]) THEN Record(id) /\ Ignore
     ELSE \E st \in {Check(id)} :
            IF st.ok
            THEN /\ verdict = "ok" /\ id \notin seen
                 /\ verdict' = "failed" /\ Import(Inputs[id])
                 /\ lits' = st.lits /\ watchers' = st.watchers
                 /\ UNCHANGED <<live, seen, clauses, garbage, search, size_clauses>>
            ELSE Record(id) /\ AddClause(id, Backtracked(st)) /\ UNCHANGED garbage

-----------------------------------------------------------------------------
Satisfied(id) == \E l \in ToSet(lits[id]) : Value(trail, l) > 0

\* Mutant: satisfied clauses are freed too, but only deleted ones unwatched.
UnwatchDeleted(G, S) ==
  watchers' = [l \in Lit |-> SelectSeq(watchers[l], LAMBDA w : w.clause \notin G)]

Unwatch(G, S) ==
  watchers' = [l \in Lit |-> SelectSeq(watchers[l], LAMBDA w : w.clause \notin G \cup S)]

\* collect_garbage_clauses, with the garbage G and the clauses C in the table.
CollectGarbageClauses(G, C) ==
  \E S \in {{c \in C : Satisfied(c)}} :
    /\ clauses' = C \ S /\ garbage' = {}
    /\ lits' = [c \in Id |-> IF c \in G \cup S THEN <<>> ELSE lits[c]]
    /\ Unwatch(G, S)

\* Mutant: deleting looks the clause up, satisfied or not.
NeverIgnored(id) == FALSE

Ignored(id) == Tautological(Inputs[id])

\* find: by id, and the literals must agree.
Found(id) == id \in clauses /\ ToSet(lits[id]) = ToSet(Inputs[id])

\* delete_clause, for any id, known or not.  The assertion of reduce_hash fails if the
\* table was never allocated.
DeleteClause(id) ==
  /\ verdict = "ok"
  /\ live' = live \ {id} /\ UNCHANGED <<seen, search, size_clauses>>
  /\ Import(Inputs[id])
  /\ CASE Ignored(id) -> UNCHANGED <<store, verdict>>
       [] ~Ignored(id) /\ ~Found(id) ->
            verdict' = (IF size_clauses = 0 THEN "aborted" ELSE "missing") /\ UNCHANGED store
       [] ~Ignored(id) /\ Found(id) ->
            /\ UNCHANGED verdict
            /\ IF 2 * (Cardinality(garbage) + 1) > Max({size_clauses, size_vars'})
               THEN CollectGarbageClauses(garbage \cup {id}, clauses \ {id})
               ELSE /\ garbage' = garbage \cup {id} /\ clauses' = clauses \ {id}
                    /\ UNCHANGED <<lits, watchers>>

Next == \E id \in Id : AddOriginalClause(id) \/ AddDerivedClause(id) \/ DeleteClause(id)
Spec == Init /\ [][Next]_vars

-----------------------------------------------------------------------------
\* State by their types.
TypeOK ==
  /\ live \subseteq seen /\ seen \subseteq Id
  /\ verdict \in {"ok", "inconsistent", "failed", "missing", "aborted"}
  /\ clauses \subseteq seen /\ garbage \subseteq seen \ clauses
  /\ lits \in [Id -> Seq(Lit)]
  /\ watchers \in [Lit -> Seq([blit : Lit, size : Nat, clause : Id])]
  /\ trail \in Seq(Lit) /\ next_to_propagate \in 0 .. Len(trail)
  /\ {size_clauses, size_vars} \subseteq {0, 1, 2, 4, 8, 16}

\* No watch points to a clause that was freed, although deletion leaves the
\* watches for later and collection also frees clauses nobody deleted.
NoDanglingWatch ==
  \A l \in Lit : \A w \in ToSet(watchers[l]) :
    w.clause \in clauses \cup garbage /\ lits[w.clause] # <<>> /\ w.size = Len(lits[w.clause])

\* Between two calls each clause of the table is watched by its first two
\* literals, once each, and no false watch is left without a true literal in
\* its clause: what checks moved under assumptions is right without them.
WatchesHold ==
  verdict = "ok" =>
    \A id \in clauses :
      /\ \A l \in Lit : Len(SelectSeq(watchers[l], LAMBDA w : w.clause = id)) =
                          IF l \in {lits[id][1], lits[id][2]} THEN 1 ELSE 0
      /\ \/ \E l \in ToSet(lits[id]) : Value(trail, l) > 0
         \/ \A n \in {1, 2} : Value(trail, lits[id][n]) = 0

\* The data structures implement what a checker promises: a step by
\* propagation is never refused, a clause that does not follow is never
\* accepted, and a clause of the proof is never reported as missing; nor is one
\* looked for before the table is there.
Promised == INSTANCE ProofChecking
Refines == Promised!Spec
=============================================================================
