------------------------------ MODULE Analysis ------------------------------
(***************************************************************************)
(* Conflict analysis of one solver instance (analyze): the first UIP       *)
(* clause by resolution along the trail, on-the-fly strengthening (OTFS)   *)
(* of a reason in every stored copy, shrinking and minimisation with       *)
(* shrink=3, the driving clause, the back jump and eager subsumption.      *)
(*                                                                         *)
(* A resolvent is the set of its literals, all false and none on the root  *)
(* level.  'low' is the smallest trail position seen on each level         *)
(* (control[k].seen.trail): it is not cleared when OTFS restarts the loop. *)
(***************************************************************************)
EXTENDS Engine

\* The literals of a clause but l, without those fixed on the root level.
Others(e, ref, l) == {o \in LitsAt(e, ref) \ {l} : LevelOf(e, o) > 0}
OnLevel(e, S, k) == {l \in S : LevelOf(e, l) = k}
OpenIn(e, res) == OnLevel(e, res, Level(e))
InTrailOrder(e, S) ==
  LET true == SelectSeq(e.trail, LAMBDA l : -l \in S)
  IN [i \in DOMAIN true |-> -true[i]]
LatestOf(e, S) == CHOOSE l \in S : \A o \in S : TrailOf(e, o) <= TrailOf(e, l)

\* analyze_literal: the new literals are seen on their levels.
Seen(e, low, S) ==
  [k \in DOMAIN low |-> Min({low[k]} \cup {TrailOf(e, l) : l \in OnLevel(e, S, k)})]

-----------------------------------------------------------------------------
(***************************************************************************)
(* Minimisation.  m holds the literals flagged keep, the ones flagged      *)
(* removable by a block shrunken to its UIP, and low.  The flags that only *)
(* cache results of minimize_literal (poison, removable) are left out.     *)
(***************************************************************************)

\* minimize_literal for the false literal l
RECURSIVE Removable(_, _, _)
Removable(e, m, l) ==
  \/ LevelOf(e, l) = 0
  \/ l \in m.keep \cup m.removable
  \/ /\ ReasonOf(e, l) # None
     /\ LevelOf(e, l) # Level(e)
     /\ TrailOf(e, l) > m.low[LevelOf(e, l)]
     /\ \A o \in LitsAt(e, ReasonOf(e, l)) \ {-l} : Removable(e, m, o)

\* shrunken_block_no_uip
MinimizeBlock(e, m, block) ==
  FoldLeft(LAMBDA n, l : IF Removable(e, n, l) THEN n ELSE [n EXCEPT !.keep = @ \cup {l}],
           m, InTrailOrder(e, block))

\* Mutant: a failed block is kept as if it had been shrunken to its UIP.
ShrinkBlockUnchecked(e, m, block, shrinkable, open) ==
  [m EXCEPT !.keep = @ \cup {LatestOf(e, open)}, !.removable = @ \cup shrinkable]

\* shrink_block: the literals of the block's level are resolved away until one
\* is left, unless a literal of a lower level would enter the clause.
RECURSIVE ShrinkBlock(_, _, _, _, _)
ShrinkBlock(e, m, block, shrinkable, open) ==
  LET uip == LatestOf(e, open)
      k == LevelOf(e, uip)
      reason == Others(e, ReasonOf(e, uip), -uip)
      fresh == OnLevel(e, reason, k) \ shrinkable
  IN IF open = {uip}
     THEN [keep |-> m.keep \cup {uip}, removable |-> m.removable \cup shrinkable,
           low |-> [m.low EXCEPT ![k] = TrailOf(e, uip)]]
     ELSE IF \E l \in reason : LevelOf(e, l) < k /\ ~Removable(e, m, l)
     THEN MinimizeBlock(e, m, block)
     ELSE ShrinkBlock(e, m, block, shrinkable \cup fresh, (open \ {uip}) \cup fresh)

\* minimize_and_shrink_block; a block of one literal is kept.
MinimizeAndShrinkBlock(e, m, block) ==
  CASE block = {} -> m
    [] Cardinality(block) = 1 -> [m EXCEPT !.keep = @ \cup block]
    [] OTHER -> ShrinkBlock(e, m, block, block, block)

\* shrink_and_minimize_clause: from the lowest level up to the one below uip's.
ShrinkAndMinimize(e, low, res) ==
  FoldLeft(LAMBDA m, k : MinimizeAndShrinkBlock(e, m, OnLevel(e, res, k)),
           [keep |-> OpenIn(e, res), removable |-> {}, low |-> low],
           [k \in 1 .. Level(e) - 1 |-> k]).keep

-----------------------------------------------------------------------------
\* Mutant: copy 2 is taken to watch what copy 1 watches.
UipNotMoved(e, c, k, uip) == e

\* on_the_fly_strengthen2: in copy 2 the uip is moved to the front first, for
\* its watches need not be where those of copy 1 are.
UipToFront(e, c, k, uip) ==
  LET lits == e.db[c][k].lits
      i == CHOOSE j \in DOMAIN lits : lits[j] = uip
      f == WatchLiteral(RemoveWatch(e, c, lits[1], k), c, uip, lits[2], k)
  IN IF c = 1 \/ i <= 2 THEN e
     ELSE [f EXCEPT !.db[c][k].lits = [@ EXCEPT ![i] = lits[1], ![1] = uip]]

\* The units and uip leave a clause: the other watch comes first, and a literal
\* of the highest level, the first one, second.
OtherWatch(lits, uip) == IF lits[1] = uip THEN lits[2] ELSE lits[1]
WithoutUip(lits, uip) ==
  <<OtherWatch(lits, uip), lits[Len(lits)]>> \o SubSeq(lits, 3, Len(lits) - 1)
HighestSecond(e, lits) ==
  LET highest == Max({LevelOf(e, lits[i]) : i \in 2 .. Len(lits)})
      n == Min({i \in 2 .. Len(lits) : LevelOf(e, lits[i]) = highest})
  IN [lits EXCEPT ![2] = lits[n], ![n] = lits[2]]
Shortened(e, lits, uip) ==
  HighestSecond(e, WithoutUip(SelectSeq(lits, LAMBDA l : LevelOf(e, l) > 0), uip))

\* Clause k gets the literals 'lits' and is watched by the first two; before, it
\* was watched by uip and 'init'.
Rewatch(e, c, k, uip, init, lits) ==
  LET f == IF init = lits[1] THEN e ELSE RemoveWatch(e, c, init, k)
      g == [RemoveWatch(f, c, uip, k) EXCEPT !.db[c][k].lits = lits,
              !.db[c][k].pos = IF @ > Len(lits) THEN 3 ELSE @]
      w == IF init = lits[1] THEN UpdateWatchSize(g, c, init, lits[2], k)
           ELSE WatchLiteral(g, c, lits[1], lits[2], k)
  IN WatchLiteral(w, c, lits[2], lits[1], k)

StrengthenCopy(e, c, k, uip) ==
  LET lits == e.db[c][k].lits
  IN Rewatch(Expect(e, uip \in {lits[1], lits[2]}, "otfs_uip_watched"),
             c, k, uip, OtherWatch(lits, uip), Shortened(e, lits, uip))

OnTheFlyStrengthen(e, k, uip) ==
  LET f == EachCopy(e, LAMBDA g, c : StrengthenCopy(UipToFront(g, c, k, uip), c, k, uip))
      levels == {LevelOf(e, f.db[c][k].lits[2]) : c \in Copies(e)}
  IN Expect(f, Cardinality(levels) = 1, "otfs_highest_level")

\* Mutant: only the original of the subsuming clause becomes irredundant.
OtfsSubsumeOneCopy(e, subsuming, subsumed) ==
  MarkGarbage([e EXCEPT !.db[1][subsuming].red = @ /\ e.db[1][subsumed].red], subsumed)

\* otfs_subsume_clause
OtfsSubsume(e, subsuming, subsumed) ==
  LET turned == ~e.db[1][subsumed].red /\ e.db[1][subsuming].red
      Turn(f, c) == [f EXCEPT !.db[c][subsuming].red = FALSE]
  IN MarkGarbage(IF turned THEN EachCopy(e, Turn) ELSE e, subsumed)

\* Mutant: back by one level only, as with chronological backtracking.
OtfsForceOneLevel(e) ==
  LET forced == CHOOSE l \in LitsAt(e, e.conflict) : LevelOf(e, l) = Level(e)
  IN [SearchAssign(Backtrack(e, Level(e) - 1), forced, e.conflict) EXCEPT !.conflict = None]

\* open = 1 after OTFS: the strengthened clause forces its literal.
OtfsForce(e) ==
  LET lits == LitsAt(e, e.conflict)
      forced == CHOOSE l \in lits : LevelOf(e, l) = Level(e)
      jump == Max({0} \cup {LevelOf(e, l) : l \in lits \ {forced}})
  IN [SearchAssign(Backtrack(e, jump), forced, e.conflict) EXCEPT !.conflict = None]

-----------------------------------------------------------------------------
\* The last 'entries' places of the clause list, in which the copies of a clause
\* are next to each other; the newest clause k itself is passed over.
SubsumeAmongLast(e, k, entries) ==
  LET n == Cardinality(Copies(e))
      all == n * Len(e.db[1])
      Copy(m) == ((m - 1) % n) + 1
      Index(m) == ((m - 1) \div n) + 1
      subsumed == {m \in Max({1, all - entries + 1}) .. all :
                     LET d == e.db[Copy(m)][Index(m)]
                     IN /\ Index(m) # k /\ d.red /\ ~d.garbage
                        /\ LitsAt(e, <<1, k>>) \subseteq ToSet(d.lits)}
      last == {Index(m) : m \in {o \in subsumed : Copy(o) = n}}
      mapped == \A m \in subsumed : Index(m) \in last
  IN FoldLeft(LAMBDA f, d : IF d \in last THEN MarkGarbage(f, d) ELSE f,
              Expect(e, mapped, "clause_map_to_orig_cls"), [d \in 1 .. k |-> d])

\* eagerly_subsume_recently_learned_clauses: a subsumed copy is found before
\* its original, and both are dropped at once.
EagerlySubsume(e, k) ==
  SubsumeAmongLast(e, k, Cardinality(Copies(e)) * EagerSubsumeLim + 1)

\* The end of analyze: new_driving_clause, back jump and the flipped UIP.
Drive(e, low, res) ==
  LET lits == Reverse(InTrailOrder(e, ShrinkAndMinimize(e, low, res)))
      k == Len(e.db[1]) + 1
      learned == IF Len(lits) = 1 THEN Backtrack(e, 0)
                 ELSE Backtrack(NewClause(e, lits, TRUE), LevelOf(e, lits[2]))
      f == [SearchAssign(learned, lits[1], IF Len(lits) = 1 THEN None ELSE <<1, k>>)
              EXCEPT !.conflict = None]
  IN IF Len(lits) = 1 THEN f ELSE EagerlySubsume(f, k)

\* The loop of analyze.  first: the next reason is the first one resolved with
\* the conflict clause ('resolved' is 1 then).
RECURSIVE Resolve(_, _, _, _)
Resolve(e, low, res, first) ==
  LET open == OpenIn(e, res)
      uip == -LatestOf(e, open)
      ref == ReasonOf(e, uip)
      antecedent == Others(e, ref, uip)
      next == (res \ {-uip}) \cup antecedent
      seen == Seen(e, low, antecedent)
      strengthened == OnTheFlyStrengthen(e, ref[2], uip)
      subsumed == IF first /\ Cardinality(next) < Cardinality(Others(e, e.conflict, 0))
                  THEN OtfsSubsume(strengthened, ref[2], e.conflict[2])
                  ELSE strengthened
      f == [subsumed EXCEPT !.conflict = ref]
  IN CASE open = {} -> Expect(e, FALSE, "analyze_uip")
       [] Cardinality(open) = 1 -> Drive(e, low, res)
       [] Cardinality(open) > 1 /\ ref = None -> Expect(e, FALSE, "analyze_reason")
       [] OTHER ->
          IF next = antecedent /\ Cardinality(antecedent) >= 2
          THEN IF Cardinality(OpenIn(e, next)) = 1 THEN OtfsForce(f)
               ELSE Resolve(f, seen, next, TRUE)
          ELSE Resolve(e, seen, next, FALSE)

Analyze(e) ==
  LET res == Others(e, e.conflict, 0)
      low == [k \in 1 .. Level(e) |-> Len(e.trail)]
  IN IF Level(e) = 0 THEN LearnEmptyClause(e)
     ELSE Resolve(e, Seen(e, low, res), res, TRUE)
=============================================================================
