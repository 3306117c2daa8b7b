------------------------------- MODULE Chrono -------------------------------
(***************************************************************************)
(* One solver with chronological backtracking: literals may be assigned on *)
(* a level below the current one, and then stay on the trail out of order  *)
(* when the levels above are taken back (assignment_level, backtrack,      *)
(* find_conflict_level).  The state of the solver is a record.  A clause   *)
(* is watched by its first two literals.  The order of the watch lists,    *)
(* blocking literals and saved positions are left open: the clauses that   *)
(* watch a literal are visited in any order, and a watch search finds any  *)
(* literal that is not false.  The analysis stops at the first UIP,        *)
(* without OTFS and minimisation (see modules Analysis and Cdcl).          *)
(***************************************************************************)
EXTENDS Formula

\* Reasons are clause numbers, None for no clause and Decision for decisions.
None == 0
Decision == -1

\* chrono is opts.chrono and chronoalways: "off", "on", "always", or "highest" when
\* opts.chrono is 2.
Fresh(chrono) ==
  [chrono |-> chrono, db |-> <<>>, trail |-> <<>>, lev |-> [v \in Var |-> 0],
   why |-> [v \in Var |-> None], control |-> <<>>, propagated |-> 0, conflict |-> None,
   unsat |-> FALSE, tainted |-> 0, broken |-> {}]
UseChrono(e) == e.chrono # "off"

\* An assertion of the code that fails adds its name to 'broken'.
Expect(e, ok, what) == IF ok THEN e ELSE [e EXCEPT !.broken = @ \cup {what}]

Level(e) == Len(e.control)
TrueLits(e) == ToSet(e.trail)
Val(e, l) == IF l \in TrueLits(e) THEN 1 ELSE IF -l \in TrueLits(e) THEN -1 ELSE 0
LevelOf(e, l) == e.lev[Idx(l)]
ReasonOf(e, l) == e.why[Idx(l)]
PosOf(e, l) == CHOOSE n \in DOMAIN e.trail : Idx(e.trail[n]) = Idx(l)
Fixed(e, l) == IF LevelOf(e, l) = 0 THEN Val(e, l) ELSE 0

\* The height of the trail below level n.
Height(e, n) == e.control[n].trail

-----------------------------------------------------------------------------
MaxLevel(e, C) == Max({0} \cup {LevelOf(e, l) : l \in C})
AssignmentLevel(e, l, k) == MaxLevel(e, ToSet(e.db[k]) \ {l})

\* search_assign
SearchAssign(e, l, k) ==
  LET level == IF k = None THEN 0
               ELSE IF k = Decision \/ ~UseChrono(e) THEN Level(e) ELSE AssignmentLevel(e, l, k)
  IN [Expect(e, Val(e, l) = 0, "search_assign") EXCEPT
        !.trail = Append(@, l), !.lev[Idx(l)] = level,
        !.why[Idx(l)] = IF level = 0 \/ k = Decision THEN None ELSE k]

NewTrailLevel(e, l) == [e EXCEPT !.control = Append(@, [decision |-> l, trail |-> Len(e.trail)])]

SearchAssumeDecision(e, l) ==
  SearchAssign(NewTrailLevel(Expect(e, e.propagated = Len(e.trail), "decide"), l), l, Decision)

\* Mutant: the literals that are kept are taken to be propagated.
RepropagatedLate(e, assigned, end) == Min({e.propagated, end})

Repropagated(e, assigned, end) == Min({e.propagated, assigned})

\* backtrack: literals of lower levels are kept and propagated once more.
BacktrackedTo(e, level, assigned) ==
  LET kept == SelectSeq(SubSeq(e.trail, assigned + 1, Len(e.trail)), LAMBDA l : LevelOf(e, l) <= level)
      trail == SubSeq(e.trail, 1, assigned) \o kept
  IN [e EXCEPT !.trail = trail, !.control = SubSeq(@, 1, level),
               !.propagated = Repropagated(e, assigned, Len(trail)),
               !.tainted = IF {@, -@} \cap ToSet(trail) = {} THEN 0 ELSE @]

Backtrack(e, level) ==
  IF level >= Level(e) THEN Expect(e, level = Level(e), "backtrack")
  ELSE BacktrackedTo(e, level, Height(e, level + 1))

-----------------------------------------------------------------------------
\* The body of the loop of propagate over the watches of the false literal p,
\* for clause k: the states it may lead to.
Swapped(c, i, j) == [c EXCEPT ![i] = c[j], ![j] = c[i]]
OtherWatch(c, p) == IF c[1] = p THEN c[2] ELSE c[1]
WatchMoved(c, p, n) == [Swapped(c, IF c[1] = p THEN 1 ELSE 2, n) EXCEPT ![1] = OtherWatch(c, p), ![2] = c[n]]
Replacements(e, c) == {n \in 3 .. Len(c) : Val(e, c[n]) >= 0}

\* With chrono = 2 a clause that forced a literal above the level of p is watched by
\* the first other literal of that level instead of p.
HighestWatched(e, k, p) ==
  LET c == e.db[k]
      other == OtherWatch(c, p)
      highest == {n \in 3 .. Len(c) : LevelOf(e, c[n]) = LevelOf(e, other)}
  IN IF e.chrono # "highest" \/ Len(c) = 2 \/ LevelOf(e, other) <= LevelOf(e, p) THEN e
     ELSE [Expect(e, highest # {}, "propagate") EXCEPT !.db[k] = WatchMoved(c, p, Min(highest))]

Visits(e, k, p) ==
  LET c == e.db[k]
      other == OtherWatch(c, p)
      rest == Replacements(e, c)
  IN IF Val(e, other) > 0 THEN {e}
     ELSE IF rest # {}
     THEN {IF Val(e, c[n]) > 0 THEN e ELSE [e EXCEPT !.db[k] = WatchMoved(c, p, n)] : n \in rest}
     ELSE {IF Val(e, other) = 0 THEN HighestWatched(SearchAssign(e, other, k), k, p) ELSE [e EXCEPT !.conflict = k]}

Watching(e, p) == {k \in DOMAIN e.db : p \in {e.db[k][1], e.db[k][2]}}
Binary(e, k) == Len(e.db[k]) = 2

\* The visits of the clauses of K, in any order: propagate goes on after a falsified
\* binary clause, until it comes to a long one, and stops at a falsified long one.
RECURSIVE VisitSome(_, _, _)
VisitNext(e, p, K, k) ==
  IF e.conflict # None /\ ~Binary(e, k) THEN {e}
  ELSE UNION {VisitSome(f, p, K \ {k}) : f \in Visits(e, k, p)}
VisitSome(e, p, K) ==
  IF K = {} \/ (e.conflict # None /\ ~Binary(e, e.conflict)) THEN {e}
  ELSE UNION {VisitNext(e, p, K, k) : k \in K}
VisitAll(e, p) == VisitSome([e EXCEPT !.propagated = @ + 1], p, Watching(e, p))

\* propagate, to the end or to a conflict
RECURSIVE Propagations(_)
Propagations(e) ==
  IF e.conflict # None \/ e.propagated = Len(e.trail) THEN {e}
  ELSE UNION {Propagations(f) : f \in VisitAll(e, -e.trail[e.propagated + 1])}

-----------------------------------------------------------------------------
\* find_conflict_level: the two literals of the highest levels go to the front.
FirstHighest(e, c, i) ==
  CHOOSE n \in i .. Len(c) : /\ \A m \in i .. Len(c) : LevelOf(e, c[m]) <= LevelOf(e, c[n])
                             /\ \A m \in i .. n - 1 : LevelOf(e, c[m]) < LevelOf(e, c[n])
HighestTwo(e, c) ==
  FoldLeft(LAMBDA d, i : Swapped(d, i, FirstHighest(e, d, i)), c, <<1, 2>>)

OnLevel(e, C, level) == {l \in C : LevelOf(e, l) = level}

\* Mutant: the forced literal is driven without going below its old level.
ForcedLevelKept(level) == level

ForcedLevel(level) == level - 1

\* determine_actual_backtrack_level: with chronoreusetrail the level depends on
\* the decision order, which is left open here.
ActualLevels(e, jump, assumed) ==
  CASE e.chrono = "off" -> {jump}
    [] e.chrono = "always" -> {Level(e) - 1}
    [] e.chrono \in {"on", "highest"} -> IF jump < assumed THEN {jump} ELSE jump .. Level(e) - 1

\* The loop of analyze: R are the false literals seen and not resolved away.
Latest(e, C) == CHOOSE l \in C : \A k \in C : PosOf(e, k) <= PosOf(e, l)
AboveRoot(e, C) == {l \in C : LevelOf(e, l) > 0}

RECURSIVE FirstUip(_, _)
FirstUip(e, R) ==
  LET open == OnLevel(e, R, Level(e))
      l == Latest(e, open)
  IN IF Cardinality(open) <= 1 THEN R
     ELSE FirstUip(e, (R \ {l}) \cup AboveRoot(e, ToSet(e.db[ReasonOf(e, l)]) \ {-l}))

\* analyze_trail_negative_rank
TrailRank(e, C) ==
  SetToSortSeq(C, LAMBDA a, b : \/ LevelOf(e, a) > LevelOf(e, b)
                                \/ LevelOf(e, a) = LevelOf(e, b) /\ PosOf(e, a) > PosOf(e, b))

\* new_driving_clause, backtrack and search_assign_driving
Drive(e, learned, assumed) ==
  LET c == TrailRank(e, learned)
      jump == IF Len(c) = 1 THEN 0 ELSE LevelOf(e, c[2])
      f == IF Len(c) = 1 THEN e ELSE [e EXCEPT !.db = Append(@, c)]
      k == IF Len(c) = 1 THEN None ELSE Len(f.db)
  IN {SearchAssign(Backtrack(f, level), c[1], k) : level \in ActualLevels(e, jump, assumed)}

Done(S) == {[e EXCEPT !.conflict = None] : e \in S}

AnalyzedOn(e, assumed) ==
  IF Level(e) = 0 THEN {[e EXCEPT !.unsat = TRUE]}
  ELSE LET C == ToSet(e.db[e.conflict])
           f == Expect(e, \A l \in C : Val(e, l) < 0, "analyze")
       IN Drive(f, FirstUip(f, AboveRoot(f, C)), assumed)

Forced(e, k, l, level) == {SearchAssign(Backtrack(e, ForcedLevel(level)), l, k)}

\* analyze; 'assumed' is the number of assumptions
Analyzed(e, assumed) ==
  LET k == e.conflict
      C == ToSet(e.db[k])
      level == MaxLevel(e, C)
      top == OnLevel(e, C, level)
      f == [e EXCEPT !.db[k] = HighestTwo(e, @)]
  IN Done(IF ~UseChrono(e) THEN AnalyzedOn(e, assumed)
          ELSE IF level > 0 /\ Cardinality(top) = 1
          THEN Forced(f, k, CHOOSE l \in top : TRUE, level)
          ELSE AnalyzedOn(Backtrack(f, level), assumed))
=============================================================================
