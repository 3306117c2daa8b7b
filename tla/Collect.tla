------------------------------ MODULE Collect ------------------------------
(***************************************************************************)
(* Reduction of the learned clauses and garbage collection, with the       *)
(* pointers they must not break: clauses live at addresses; the clause     *)
(* list, the watches and the reasons on the trail point to them; the       *)
(* collector deletes clauses and may move the others.  'proof' is the bag  *)
(* of clauses that the DRAT proof has added and not deleted.               *)
(* Search is as in 'propagate'; what conflict analysis learns is open.     *)
(***************************************************************************)
EXTENDS Integers, Sequences, Bags, SequencesExt, FiniteSetsExt

CONSTANTS
  MaxVar,
  Formula,    \* the original clauses, sequences of literals
  MaxAddr,    \* the addresses
  MaxClauses, \* bound on the clauses stored
  MaxCollections, \* bound on stats.collections
  Tier1, Tier2, \* opts.reducetier1glue, opts.reducetier2glue
  Target      \* opts.reducetarget

\* Units are no clauses of the store, and no clause has a literal twice (add_new_original_clause);
\* there are addresses for a copy of the store.
ASSUME CollectAssumption ==
  /\ MaxVar \in Nat /\ Formula \in Seq(Seq(-MaxVar .. MaxVar \ {0}))
  /\ \A n \in DOMAIN Formula : Len(Formula[n]) >= 2 /\ IsInjective(Formula[n])
  /\ {MaxAddr, MaxClauses, MaxCollections, Tier1, Tier2} \subseteq Nat /\ Target \in 0 .. 100
  /\ Len(Formula) <= MaxClauses /\ 2 * MaxClauses <= MaxAddr

Var == 1 .. MaxVar
Lit == Var \cup {-v : v \in Var}
Idx(l) == IF l < 0 THEN -l ELSE l
Addr == 1 .. MaxAddr

\* The elements of s in T, in their order: SelectSeq by position
Position(s, T, k) == CHOOSE n \in DOMAIN s : /\ s[n] \in T
                                             /\ Cardinality({m \in 1 .. n : s[m] \in T}) = k
Filtered(s, T) == [k \in 1 .. Cardinality({n \in DOMAIN s : s[n] \in T}) |-> s[Position(s, T, k)]]
PlaceIn(s, x) == CHOOSE n \in DOMAIN s : s[n] = x


Stored(lits, red, glue, used) ==
  [lits |-> lits, redundant |-> red, glue |-> glue, garbage |-> FALSE,
   reason |-> FALSE, used |-> used, copy |-> 0]
Free == Stored(<<>>, FALSE, 0, 0)

\* The watch of literal l, one of the first two
Watch(c, lits, l) ==
  [clause |-> c, blit |-> IF lits[1] = l THEN lits[2] ELSE lits[1], size |-> Len(lits)]
Watched(w, c, lits) ==
  [l \in Lit |-> IF l \in {lits[1], lits[2]} THEN Append(w[l], Watch(c, lits, l)) ELSE w[l]]

VARIABLES
  mem,        \* the clause at each address
  clauses,    \* the clause list
  watches,    \* for each literal, watches with clause, blit, size
  trail, control, propagated,
  reason,     \* of each assigned variable, 0 if none
  conflict,   \* address, 0 if none
  collected,  \* last.collect.fixed
  collections, \* stats.collections
  pc,         \* "search", or the step of the reduction to come
  proof

store == <<mem, clauses, watches>>
search == <<trail, control, propagated, reason, conflict>>
vars == <<store, search, collected, collections, pc, proof>>

Level == Len(control)
IndexOf(v) == CHOOSE n \in DOMAIN trail : trail[n] \in {v, -v}
BagAdd(b, x) == b (+) SetToBag({x})
BagRemove(b, x) == b (-) SetToBag({x})
LevelOf(l) == Cardinality({k \in DOMAIN control : control[k] < IndexOf(Idx(l))})
RootLits == IF Level = 0 THEN ToSet(trail) ELSE ToSet(SubSeq(trail, 1, control[1]))
FreeAddr == Filtered([c \in Addr |-> c], {c \in Addr : mem[c] = Free})
Collects(c) == mem[c].garbage /\ ~mem[c].reason
Staying == {c \in ToSet(clauses) : ~Collects(c)}
Remembered(c) == ~mem[c].garbage \/ Len(mem[c].lits) = 2

Init ==
  /\ mem = [c \in Addr |-> IF c \in DOMAIN Formula THEN Stored(Formula[c], FALSE, 0, 0) ELSE Free]
  /\ clauses = [c \in DOMAIN Formula |-> c]
  /\ watches = [l \in Lit |->
       LET cs == Filtered(clauses, {c \in DOMAIN Formula : l \in {Formula[c][1], Formula[c][2]}})
       IN [n \in DOMAIN cs |-> Watch(cs[n], Formula[cs[n]], l)]]
  /\ trail = <<>> /\ control = <<>> /\ propagated = 0
  /\ reason = [v \in Var |-> 0] /\ conflict = 0
  /\ collected = 0 /\ collections = 0 /\ pc = "search"
  /\ proof = FoldLeft(LAMBDA b, lits : BagAdd(b, ToSet(lits)), EmptyBag, Formula)

-----------------------------------------------------------------------------
\* One watch w of the falsified literal lit; st is what propagation changes.
Value(st, l) == IF Contains(st.trail, l) THEN 1 ELSE IF Contains(st.trail, -l) THEN -1 ELSE 0
Kept(st, w) == [st EXCEPT !.kept = Append(@, w)]
Assigned(st, l, c) ==
  [[st EXCEPT !.trail = Append(@, l)] EXCEPT !.reason = [@ EXCEPT ![Idx(l)] = c]]
\* Literal k of the clause takes the place of lit, the other stays watched.
Rewatched(st, w, lits, k, lit, other) ==
  [[st EXCEPT !.mem = [st.mem EXCEPT ![w.clause] =
       [@ EXCEPT !.lits = [n \in DOMAIN lits |-> IF n = 1 THEN other ELSE IF n = 2 THEN lits[k]
                                                ELSE IF n = k THEN lit ELSE lits[n]]]]]
   EXCEPT !.watches = [st.watches EXCEPT ![lits[k]] = Append(@, [w EXCEPT !.blit = lit])]]
Stopped(st) == [st EXCEPT !.stop = TRUE]

VisitBinary(st, w) ==
  IF Value(st, w.blit) < 0 THEN [Kept(st, w) EXCEPT !.conflict = w.clause]
  ELSE Assigned(Kept(st, w), w.blit, w.clause)

VisitLong(st, lit, w) ==
  LET lits == st.mem[w.clause].lits
      other == IF lits[1] = lit THEN lits[2] ELSE lits[1]
      rest == {k \in 3 .. Len(lits) : Value(st, lits[k]) >= 0}
  IN CASE Value(st, other) > 0 -> Kept(st, [w EXCEPT !.blit = other])
       [] Value(st, other) <= 0 /\ rest # {} ->
            LET k == Min(rest) IN
            IF Value(st, lits[k]) > 0 THEN Kept(st, [w EXCEPT !.blit = lits[k]])
            ELSE Rewatched(st, w, lits, k, lit, other)
       [] Value(st, other) = 0 /\ rest = {} -> Assigned(Kept(st, w), other, w.clause)
       [] Value(st, other) < 0 /\ rest = {} -> Stopped([Kept(st, w) EXCEPT !.conflict = w.clause])

Visit(lit, st, w) ==
  IF st.stop \/ Value(st, w.blit) > 0 THEN Kept(st, w)
  ELSE IF w.size = 2 THEN VisitBinary(st, w)
  ELSE IF st.conflict # 0 THEN Stopped(Kept(st, w))
  ELSE IF st.mem[w.clause].garbage THEN st
  ELSE VisitLong(st, lit, w)

\* The states of the loop over the watches of lit
Visits(lit) ==
  LET st[n \in 0 .. Len(watches[lit])] ==
        IF n = 0 THEN [kept |-> <<>>, mem |-> mem, watches |-> watches, trail |-> trail,
                       reason |-> reason, conflict |-> 0, stop |-> FALSE]
        ELSE Visit(lit, st[n - 1], watches[lit][n])
  IN st

PropagateLiteral ==
  /\ pc = "search" /\ conflict = 0 /\ propagated < Len(trail)
  /\ propagated' = propagated + 1
  /\ \E lit \in {-trail[propagated + 1]} :
     \E st \in {Visits(lit)[Len(watches[lit])]} :
       /\ mem' = st.mem /\ trail' = st.trail /\ reason' = st.reason
       /\ watches' = [st.watches EXCEPT ![lit] = st.kept]
       /\ conflict' = st.conflict
  /\ UNCHANGED <<clauses, control, collected, collections, pc, proof>>

Quiet == pc = "search" /\ conflict = 0 /\ propagated = Len(trail)

Decide(l) ==
  /\ Quiet /\ ~Contains(trail, l) /\ ~Contains(trail, -l)
  /\ control' = Append(control, Len(trail))
  /\ trail' = Append(trail, l)
  /\ reason' = [reason EXCEPT ![Idx(l)] = 0]
  /\ UNCHANGED <<store, propagated, conflict, collected, collections, pc, proof>>

\* mark_garbage of a set of clauses: the deletion of binary ones is reported
\* to the proof later, in delete_clause.
Marked(m, C) ==
  [c \in Addr |-> IF c \in C THEN [[m[c] EXCEPT !.garbage = TRUE] EXCEPT !.used = 0] ELSE m[c]]

Forgotten(b, m, C) ==
  FoldSet(LAMBDA c, a : IF Len(m[c].lits) = 2 THEN a ELSE BagRemove(a, ToSet(m[c].lits)), b, C)

-----------------------------------------------------------------------------
\* analyze: the new clause has one literal on the conflict level and none on
\* the root level; back jump, assignment and eager subsumption.
\* Mutant: the driving literal is not propagated.
JumpBehind(k, driving, r) ==
  /\ control' = SubSeq(control, 1, k)
  /\ propagated' = control[k + 1] + Len(driving)
  /\ trail' = SubSeq(trail, 1, control[k + 1]) \o driving
  /\ reason' = [v \in Var |-> IF v \in {Idx(l) : l \in ToSet(driving)} THEN r
                              ELSE IF \E n \in 1 .. control[k + 1] : Idx(trail[n]) = v
                              THEN reason[v] ELSE 0]

Jump(k, driving, r) ==
  /\ control' = SubSeq(control, 1, k)
  /\ propagated' = control[k + 1]
  /\ trail' = SubSeq(trail, 1, control[k + 1]) \o driving
  /\ reason' = [v \in Var |-> IF v \in {Idx(l) : l \in ToSet(driving)} THEN r
                              ELSE IF \E n \in 1 .. control[k + 1] : Idx(trail[n]) = v
                              THEN reason[v] ELSE 0]

LearnUnit(l) ==
  /\ Jump(0, <<l>>, 0)
  /\ UNCHANGED <<store, proof>>

Subsumed(S) == {c \in ToSet(clauses) : /\ mem[c].redundant /\ ~mem[c].garbage
                                       /\ S \subseteq ToSet(mem[c].lits)}

\* The literals are sorted by the trail, the latest first.
Sorted(S) == Filtered([n \in DOMAIN trail |-> -trail[Len(trail) + 1 - n]], S)

LearnClause(S) ==
  /\ Len(clauses) < MaxClauses
  /\ \E lits \in {Sorted(S)},
        glue \in {Cardinality({LevelOf(l) : l \in S}) - 1},
        c \in {Head(FreeAddr)} :
       /\ Jump(LevelOf(lits[2]), <<lits[1]>>, c)
       /\ clauses' = Append(clauses, c)
       /\ watches' = Watched(watches, c, lits)
       /\ mem' = [Marked(mem, Subsumed(S)) EXCEPT
                    ![c] = Stored(lits, TRUE, glue, IF glue <= Tier2 THEN 2 ELSE 1)]
       /\ proof' = Forgotten(BagAdd(proof, S), mem, Subsumed(S))

Analyze(S) ==
  /\ pc = "search" /\ conflict # 0 /\ Level > 0 /\ S # {}
  /\ \A l \in S : Contains(trail, -l) /\ LevelOf(l) > 0
  /\ Cardinality({l \in S : LevelOf(l) = Level}) = 1
  /\ conflict' = 0
  /\ IF Cardinality(S) = 1 THEN LearnUnit(CHOOSE l \in S : TRUE) ELSE LearnClause(S)
  /\ UNCHANGED <<collected, collections, pc>>

Restart ==
  /\ Quiet /\ Level > 0
  /\ Jump(0, <<>>, 0)
  /\ UNCHANGED <<store, conflict, collected, collections, pc, proof>>

-----------------------------------------------------------------------------
\* mark_satisfied_clauses_as_garbage: only if there are new units
Satisfied == {c \in ToSet(clauses) : ~mem[c].garbage /\ \E l \in ToSet(mem[c].lits) : l \in RootLits}
Unfixed(lits) == Filtered(lits, {l \in Lit : -l \notin RootLits})
Shrinking == {c \in ToSet(clauses) \ Satisfied :
                /\ ~mem[c].garbage
                /\ \E l \in ToSet(mem[c].lits) : -l \in RootLits
                /\ Len(Unfixed(mem[c].lits)) >= 2}

\* remove_falsified_literals, shrink_clause and promote_clause
Shrunken(r) ==
  LET lits == Unfixed(r.lits)
      glue == IF r.redundant /\ r.glue > Len(lits) - 1 /\ r.glue > Tier1
              THEN Len(lits) - 1 ELSE r.glue
      used == IF r.redundant /\ r.glue > Tier2 /\ Len(lits) - 1 \in Tier1 + 1 .. Tier2
              THEN 2 ELSE r.used
  IN [[[r EXCEPT !.lits = lits] EXCEPT !.glue = glue] EXCEPT !.used = used]

\* stats.all.fixed
FixedCount == Cardinality(RootLits)

Reduce ==
  /\ Quiet /\ collections < MaxCollections
  /\ \E c \in ToSet(clauses) : mem[c].redundant /\ ~mem[c].garbage
  /\ pc' = "protect" /\ collected' = FixedCount
  /\ IF collected >= FixedCount THEN UNCHANGED <<mem, proof>>
     ELSE /\ mem' = [c \in Addr |-> IF c \in Shrinking THEN Shrunken(mem[c])
                                    ELSE Marked(mem, Satisfied)[c]]
          /\ proof' = FoldSet(LAMBDA c, b :
                        BagAdd(BagRemove(b, ToSet(mem[c].lits)), ToSet(Shrunken(mem[c]).lits)),
                        Forgotten(proof, mem, Satisfied), Shrinking)
  /\ UNCHANGED <<clauses, watches, search, collections>>

\* The reasons of the literals above the root level
Protected == {reason[Idx(l)] : l \in ToSet(trail) \ RootLits} \ {0}

ProtectReasons ==
  /\ pc = "protect" /\ pc' = "mark"
  /\ mem' = [c \in Addr |-> IF c \in Protected THEN [mem[c] EXCEPT !.reason = TRUE] ELSE mem[c]]
  /\ UNCHANGED <<clauses, watches, search, collected, collections, proof>>

\* Redundant clauses that are no reason; those used lately are spared.
Reducible == {c \in ToSet(clauses) : mem[c].redundant /\ ~mem[c].garbage /\ ~mem[c].reason}
Aged(m) == [c \in Addr |-> IF c \in Reducible /\ m[c].used > 0
                           THEN [m[c] EXCEPT !.used = @ - 1] ELSE m[c]]
Unused == {c \in Reducible : mem[c].used = 0}

LessUseful(c, d) ==
  \/ mem[c].glue > mem[d].glue
  \/ mem[c].glue = mem[d].glue /\ Len(mem[c].lits) > Len(mem[d].lits)
Before(c, d) ==
  \/ LessUseful(c, d)
  \/ ~LessUseful(d, c) /\ PlaceIn(clauses, c) < PlaceIn(clauses, d)
\* The first of the candidates in this order
Useless ==
  LET candidates == {c \in Unused : mem[c].glue > Tier1}
  IN {c \in candidates : Cardinality({d \in candidates : Before(d, c)})
                          < (Target * Cardinality(candidates)) \div 100}

\* mark_clauses_to_be_flushed, or mark_useless_redundant_clauses_as_garbage
MarkUseless ==
  /\ pc = "mark" /\ pc' = "copy"
  /\ \E C \in {Unused, Useless} :
       mem' = Marked(Aged(mem), C) /\ proof' = Forgotten(proof, mem, C)
  /\ UNCHANGED <<clauses, watches, search, collected, collections>>

\* From the second collection on the clauses that stay are moved (copy_clause).
MovedMem(staying, to) ==
  [c \in Addr |->
     IF c \in ToSet(staying) THEN [mem[c] EXCEPT !.copy = to[PlaceIn(staying, c)]]
     ELSE IF \E n \in DOMAIN staying : to[n] = c THEN mem[staying[PlaceIn(to, c)]]
     ELSE mem[c]]
CopyClauses ==
  /\ pc = "copy" /\ pc' = "watches"
  /\ collections' = collections + 1
  /\ mem' = IF collections = 0 THEN mem
            ELSE MovedMem(Filtered(clauses, Staying), FreeAddr)
  /\ UNCHANGED <<clauses, watches, search, collected, proof>>

Moved(c) == IF mem[c].copy # 0 THEN mem[c].copy ELSE c

\* flush_watches: drop, redirect and refresh; binary watches first
Flushed(w, lit) == Watch(Moved(w.clause), mem[Moved(w.clause)].lits, lit)
FlushWatches ==
  /\ pc = "watches" /\ pc' = "reasons"
  /\ watches' = [l \in Lit |->
       LET old == Filtered(watches[l], {w \in ToSet(watches[l]) : ~Collects(w.clause)})
           ws == [n \in DOMAIN old |-> Flushed(old[n], l)]
           binary == {w \in ToSet(ws) : w.size = 2}
       IN Filtered(ws, binary) \o Filtered(ws, ToSet(ws) \ binary)]
  /\ UNCHANGED <<mem, clauses, search, collected, collections, proof>>

\* Mutant: forgotten
ReasonsStay ==
  /\ pc = "reasons" /\ pc' = "delete"
  /\ UNCHANGED <<store, search, collected, collections, proof>>

UpdateReasons ==
  /\ pc = "reasons" /\ pc' = "delete"
  /\ reason' = [v \in Var |-> IF \E l \in ToSet(trail) \ RootLits : Idx(l) = v /\ reason[v] # 0
                              THEN Moved(reason[v]) ELSE reason[v]]
  /\ UNCHANGED <<store, trail, control, propagated, conflict, collected, collections, proof>>

\* Mutant: delete_clause reports nothing.
ReportNone(b) == b

\* delete_clause reports the binary ones.
ReportDeleted(b) ==
  FoldSet(LAMBDA c, a : BagRemove(a, ToSet(mem[c].lits)), b,
          {c \in ToSet(clauses) : Collects(c) /\ Len(mem[c].lits) = 2})

\* Garbage and the old copies are freed.
DeleteGarbage ==
  /\ pc = "delete" /\ pc' = "unprotect"
  /\ mem' = [c \in Addr |-> IF mem[c].copy # 0 \/ Collects(c) THEN Free ELSE mem[c]]
  /\ LET kept == Filtered(clauses, Staying)
     IN clauses' = [n \in DOMAIN kept |-> Moved(kept[n])]
  /\ proof' = ReportDeleted(proof)
  /\ UNCHANGED <<watches, search, collected, collections>>

UnprotectReasons ==
  /\ pc = "unprotect" /\ pc' = "search"
  /\ mem' = [c \in Addr |-> IF c \in Protected THEN [mem[c] EXCEPT !.reason = FALSE] ELSE mem[c]]
  /\ UNCHANGED <<clauses, watches, search, collected, collections, proof>>

Next ==
  \/ PropagateLiteral \/ Restart \/ Reduce
  \/ \E l \in Lit : Decide(l)
  \/ \E S \in SUBSET {-l : l \in ToSet(trail)} : Analyze(S)
  \/ ProtectReasons \/ MarkUseless \/ CopyClauses \/ FlushWatches
  \/ UpdateReasons \/ DeleteGarbage \/ UnprotectReasons

Spec == Init /\ [][Next]_vars

-----------------------------------------------------------------------------
ClauseRecord ==
  [lits : Seq(Lit), redundant : BOOLEAN, glue : Nat, garbage : BOOLEAN,
   reason : BOOLEAN, used : Nat, copy : Addr \cup {0}]

TypeOK ==
  /\ mem \in [Addr -> ClauseRecord] /\ clauses \in Seq(Addr)
  /\ watches \in [Lit -> Seq([clause : Addr, blit : Lit, size : Nat])]
  /\ trail \in Seq(Lit) /\ control \in Seq(Nat)
  /\ propagated \in 0 .. Len(trail) /\ conflict \in Addr \cup {0}
  /\ reason \in [Var -> Addr \cup {0}] /\ {collected, collections} \subseteq Nat
  /\ pc \in {"search", "protect", "mark", "copy", "watches", "reasons", "delete", "unprotect"}

\* Between two collections no pointer leads to a clause that was freed or moved:
\* the clause list holds each clause in memory once, and watches, the conflict and
\* the reasons of assigned variables point into it (collect.cpp).
NoDanglingPointer ==
  pc = "search" =>
    /\ ToSet(clauses) = {c \in Addr : mem[c] # Free} /\ IsInjective(clauses)
    /\ \A l \in Lit : \A w \in ToSet(watches[l]) : w.clause \in ToSet(clauses)
    /\ Protected \cup ({conflict} \ {0}) \subseteq ToSet(clauses)
    /\ \A c \in Addr : mem[c].copy = 0 /\ ~mem[c].reason

\* Assertion FW1 and what propagation relies on: a clause is watched by its first
\* two literals, once each, with its size and one of its own literals as
\* blocking literal; also after literals were removed and clauses moved.
WatchesExact ==
  pc = "search" =>
    \A c \in ToSet(clauses) : ~mem[c].garbage =>
      \A l \in Lit :
        LET ws == {n \in DOMAIN watches[l] : watches[l][n].clause = c}
        IN /\ Cardinality(ws) = IF l \in {mem[c].lits[1], mem[c].lits[2]} THEN 1 ELSE 0
           /\ \A n \in ws : /\ watches[l][n].size = Len(mem[c].lits)
                            /\ watches[l][n].blit \in ToSet(mem[c].lits) \ {l}

\* A reason is no garbage and forces its literal: no reduction removes the clause
\* or the literals it needs, and no subsumption marks it (protect_reasons).
ReasonsHold ==
  pc = "search" =>
    \A n \in DOMAIN trail : (trail[n] \notin RootLits /\ reason[Idx(trail[n])] # 0) =>
      LET r == mem[reason[Idx(trail[n])]]
      IN /\ ~r.garbage /\ Contains(r.lits, trail[n])
         /\ \A l \in ToSet(r.lits) \ {trail[n]} : Contains(SubSeq(trail, 1, n), -l)

\* A clause that is unit or falsified is found when everything is propagated,
\* also just after a collection has rebuilt the watches.
PropagationComplete ==
  Quiet => \A c \in ToSet(clauses) : ~mem[c].garbage =>
    \/ \E l \in ToSet(mem[c].lits) : Contains(trail, l)
    \/ Cardinality({l \in ToSet(mem[c].lits) : ~Contains(trail, -l)}) >= 2

\* The proof knows each clause as often as it is stored, except garbage with more
\* than two literals: nothing is deleted twice or never (mark_garbage,
\* delete_clause, flush_clause).
ProofAgrees ==
  pc = "search" =>
    proof = FoldLeft(LAMBDA b, c : IF Remembered(c) THEN BagAdd(b, ToSet(mem[c].lits)) ELSE b,
                     EmptyBag, clauses)

\* Clauses that propagate or conflict are still in the proof, so that what is
\* derived from them can be checked: the reason why the deletion of a binary
\* clause is reported late (comment in 'propagate').
UsedClausesInProof ==
  pc = "search" =>
    \A c \in Protected \cup ({conflict} \ {0}) : BagIn(ToSet(mem[c].lits), proof)

\* Every original clause is satisfied on the root level or still stored as an
\* irredundant clause, without literals that are false on the root level.
KeepsFormula ==
  pc = "search" =>
    \A n \in DOMAIN Formula :
      \/ \E l \in ToSet(Formula[n]) : l \in RootLits
      \/ \E c \in ToSet(clauses) :
           /\ ~mem[c].redundant /\ ~mem[c].garbage
           /\ ToSet(mem[c].lits) \subseteq ToSet(Formula[n])
           /\ \A l \in ToSet(Formula[n]) \ ToSet(mem[c].lits) : -l \in RootLits

\* After a collection no clause holds a literal that is fixed, although the units
\* are looked at only if there are new ones since the last time.
FixedRemoved ==
  pc = "unprotect" =>
    \A c \in ToSet(clauses) : ~mem[c].garbage =>
      \A l \in ToSet(mem[c].lits) : l \notin RootLits /\ -l \notin RootLits

\* A collection breaks no pointer: no clause list, watch, conflict or reason points
\* to freed or moved memory (flush_watches, update_reason_references,
\* protect_reasons, copy_non_garbage_clauses).
PointersHold == TypeOK /\ NoDanglingPointer

\* A collection does not disturb propagation: clauses are watched by their first two
\* literals, reasons still force their literals and nothing is left to propagate.
PropagationHolds == WatchesExact /\ ReasonsHold /\ PropagationComplete

\* A collection loses no clause: the proof knows what is stored and what is used,
\* the formula is kept and fixed literals are gone.
ClausesHold == ProofAgrees /\ UsedClausesInProof /\ KeepsFormula /\ FixedRemoved
=============================================================================
