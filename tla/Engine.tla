------------------------------- MODULE Engine -------------------------------
(***************************************************************************)
(* One solver instance as a value, and what the search does to it: the     *)
(* trail, the clause copies with the order of their literals, and the      *)
(* watch lists.  Every operator takes the state of an instance and gives   *)
(* the next one; module Simulation holds two instances as variables.       *)
(*                                                                         *)
(* The sequence writer stores every clause twice.  Copy 1 (watches) is     *)
(* what the sequence reader will have; copy 2 (watches2) is for probing,   *)
(* so that a probe does not disturb the order copy 1 is searched in.  The  *)
(* reader stores copy 1 alone.  Copy c of clause k is the reference        *)
(* <<c, k>>; clause_map and clause_map_to_orig_cls are then the identity   *)
(* on k.  An assertion of the code that fails adds its name to 'failed'    *)
(* and the code goes on, as the default build (NDEBUG) does.               *)
(***************************************************************************)
EXTENDS Integers, Sequences, FiniteSets, SequencesExt, FiniteSetsExt

CONSTANTS
  MaxVar,           \* max_var
  EagerSubsumeLim   \* opts.eagersubsumelim

ASSUME EngineAssumption == MaxVar \in Nat \ {0} /\ EagerSubsumeLim \in Nat

Var == 1 .. MaxVar
Lit == Var \cup {-v : v \in Var}
VarOf(l) == IF l > 0 THEN l ELSE -l
None == <<0, 0>>   \* no clause: the reason of a decision or a unit

Fresh(copies) ==
  [db |-> [c \in 1 .. copies |-> <<>>],
   watches |-> [c \in 1 .. copies |-> [l \in Lit |-> <<>>]],
   vals |-> [l \in Lit |-> 0],
   vtab |-> [v \in Var |-> [level |-> 0, trail |-> 0, reason |-> None]],
   trail |-> <<>>, propagated |-> 0, control |-> <<>>,
   conflict |-> None, unsat |-> FALSE, failed |-> {}]

Copies(e) == DOMAIN e.db
EachCopy(e, Op(_, _)) == FoldLeft(Op, e, [c \in Copies(e) |-> c])
Level(e) == Len(e.control)
Val(e, l) == e.vals[l]
LevelOf(e, l) == e.vtab[VarOf(l)].level
TrailOf(e, l) == e.vtab[VarOf(l)].trail
ReasonOf(e, l) == e.vtab[VarOf(l)].reason
ClauseAt(e, ref) == e.db[ref[1]][ref[2]]
LitsAt(e, ref) == ToSet(ClauseAt(e, ref).lits)
Expect(e, ok, what) == IF ok THEN e ELSE [e EXCEPT !.failed = @ \cup {what}]

-----------------------------------------------------------------------------
\* search_assign: the level is the current one, since chrono = 0 and a unit
\* is assigned on the root level only; v.level and v.trail outlive backtrack.
SearchAssign(e, l, reason) ==
  [Expect(e, Val(e, l) = 0, "search_assign") EXCEPT
     !.vals = [@ EXCEPT ![l] = 1, ![-l] = -1],
     !.trail = Append(@, l),
     !.vtab[VarOf(l)] = [level |-> Level(e), trail |-> Len(e.trail) + 1,
                         reason |-> IF Level(e) = 0 THEN None ELSE reason]]

SearchAssumeDecision(e, l) ==
  SearchAssign([Expect(e, e.propagated = Len(e.trail), "decide")
                  EXCEPT !.control = Append(@, Len(e.trail))], l, None)

\* backtrack (new_level)
Backtrack(e, k) ==
  IF k >= Level(e) THEN Expect(e, k = Level(e), "backtrack")
  ELSE LET assigned == e.control[k + 1]
           undone == {VarOf(e.trail[i]) : i \in assigned + 1 .. Len(e.trail)}
       IN [e EXCEPT !.vals = [l \in Lit |-> IF VarOf(l) \in undone THEN 0 ELSE @[l]],
                    !.trail = SubSeq(@, 1, assigned),
                    !.propagated = Min({@, assigned}),
                    !.control = SubSeq(@, 1, k)]

-----------------------------------------------------------------------------
\* A watch keeps whether its clause was binary when the watch was written.
WatchLiteral(e, c, l, blit, k) ==
  [e EXCEPT !.watches[c][l] =
     Append(@, [blit |-> blit, clause |-> k, binary |-> Len(e.db[c][k].lits) = 2])]

WatchClause(e, c, k) ==
  LET lits == e.db[c][k].lits
  IN WatchLiteral(WatchLiteral(e, c, lits[1], lits[2], k), c, lits[2], lits[1], k)

RemoveWatch(e, c, l, k) ==
  LET ws == SelectSeq(e.watches[c][l], LAMBDA w : w.clause # k)
  IN Expect([e EXCEPT !.watches[c][l] = ws],
            Len(ws) + 1 = Len(e.watches[c][l]), "remove_watch")

UpdateWatchSize(e, c, l, blit, k) ==
  LET now == [blit |-> blit, clause |-> k, binary |-> Len(e.db[c][k].lits) = 2]
      ws == e.watches[c][l]
  IN Expect([e EXCEPT !.watches[c][l] =
               [i \in DOMAIN ws |-> IF ws[i].clause = k THEN now ELSE ws[i]]],
            \E i \in DOMAIN ws : ws[i].clause = k, "update_watch_size")

\* The places a replacement watch is looked for, in order: from the saved
\* position to the end, then from the first unwatched literal up to it.
SearchOrder(cl) ==
  LET size == Len(cl.lits)
  IN [n \in 1 .. size - 2 |-> ((cl.pos - 3 + n - 1) % (size - 2)) + 3]

\* The while loop over the watches of the false literal p: ws are the watches
\* still to visit, kept the ones visited and not dropped.
RECURSIVE Visit(_, _, _, _, _)
Visit(e, c, p, ws, kept) ==
  IF ws = <<>> THEN [e EXCEPT !.watches[c][p] = kept]
  ELSE
  LET w == Head(ws)
      cl == e.db[c][w.clause]
      b == Val(e, w.blit)
      Keep(f, blit) == Visit(f, c, p, Tail(ws), Append(kept, [w EXCEPT !.blit = blit]))
      Drop(f) == Visit(f, c, p, Tail(ws), kept)
      Stop(f) == [f EXCEPT !.watches[c][p] = kept \o ws]
      other == IF cl.lits[1] = p THEN cl.lits[2] ELSE cl.lits[1]
      u == Val(e, other)
      order == SearchOrder(cl)
      found == {n \in DOMAIN order : Val(e, cl.lits[order[n]]) >= 0}
      k == order[Min(found)]
      r == cl.lits[k]
      saved == [e EXCEPT !.db[c][w.clause].pos = k]
      moved == [saved EXCEPT !.db[c][w.clause].lits =
                  [@ EXCEPT ![1] = other, ![2] = r, ![k] = p]]
  IN CASE b > 0 -> Keep(e, w.blit)
       [] b < 0 /\ w.binary -> Keep([e EXCEPT !.conflict = <<c, w.clause>>], w.blit)
       [] b = 0 /\ w.binary -> Keep(SearchAssign(e, w.blit, <<c, w.clause>>), w.blit)
       [] OTHER ->
          CASE e.conflict # None -> Stop(e)
            [] e.conflict = None /\ cl.garbage -> Drop(e)
            [] e.conflict = None /\ ~cl.garbage /\ u > 0 -> Keep(e, other)
            [] OTHER ->
               CASE found # {} /\ Val(e, r) > 0 -> Keep(saved, r)
                 [] found # {} /\ Val(e, r) = 0 -> Drop(WatchLiteral(moved, c, r, p, w.clause))
                 [] found = {} /\ u = 0 -> Keep(SearchAssign(e, other, <<c, w.clause>>), w.blit)
                 [] found = {} /\ u < 0 -> Stop([e EXCEPT !.conflict = <<c, w.clause>>])

\* propagate on copy 1, propagate2 on copy 2
RECURSIVE Propagate(_, _)
Propagate(e, c) ==
  IF e.conflict # None \/ e.propagated = Len(e.trail) THEN e
  ELSE LET p == -e.trail[e.propagated + 1]
       IN Propagate(Visit([e EXCEPT !.propagated = @ + 1], c, p,
                          e.watches[c][p], <<>>), c)

\* Mutant: what copy 1 has propagated is not propagated in copy 2.
FollowUpSkipped(e, from) == e

\* 'propagated = propagated2; propagate2 ()': the literals copy 1 has just
\* propagated from height 'from' on are propagated in copy 2 as well.
FollowUp(e, from) ==
  LET f == Propagate([e EXCEPT !.propagated = from], 2)
  IN Expect(f, f.conflict = None /\ f.trail = e.trail, "copy_follows")

-----------------------------------------------------------------------------
\* new_clause, new_clause2 and the watches of both.
NewClause(e, lits, red) ==
  LET cl == [lits |-> lits, pos |-> 3, red |-> red, garbage |-> FALSE]
      k == Len(e.db[1]) + 1
  IN EachCopy(e, LAMBDA f, c : WatchClause([f EXCEPT !.db[c] = Append(@, cl)], c, k))

\* mark_garbage on both copies
MarkGarbage(e, k) ==
  EachCopy(e, LAMBDA f, c : [Expect(f, ~f.db[c][k].garbage, "mark_garbage")
                               EXCEPT !.db[c][k].garbage = TRUE])

LearnEmptyClause(e) == [e EXCEPT !.unsat = TRUE]

\* assign_original_unit: copy 1 first, then copy 2 unless there is a conflict
AssignOriginalUnit(e, l) ==
  LET f == Propagate(SearchAssign(e, l, None), 1)
  IN CASE f.conflict # None -> LearnEmptyClause(f)
       [] f.conflict = None /\ 2 \in Copies(e) -> FollowUp(f, Len(e.trail))
       [] OTHER -> f

\* add_new_original_clause, on the root level: clauses that are tautologies or
\* satisfied are skipped, duplicated and false literals removed.
AddNewOriginalClause(e, original) ==
  LET skip == e.unsat \/ \E l \in ToSet(original) : Val(e, l) > 0 \/ -l \in ToSet(original)
      isNew(i) == \A j \in 1 .. i - 1 : original[j] # original[i]
      places == SelectSeq([i \in DOMAIN original |-> i],
                          LAMBDA i : isNew(i) /\ Val(e, original[i]) = 0)
      lits == [n \in DOMAIN places |-> original[places[n]]]
  IN CASE skip -> e
       [] ~skip /\ lits = <<>> -> LearnEmptyClause(e)
       [] ~skip /\ Len(lits) = 1 -> AssignOriginalUnit(e, lits[1])
       [] OTHER -> NewClause(e, lits, FALSE)

\* The instance after parsing the formula.
Loaded(copies, formula) == FoldLeft(AddNewOriginalClause, Fresh(copies), formula)
=============================================================================
