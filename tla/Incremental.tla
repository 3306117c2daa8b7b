---------------------------- MODULE Incremental ----------------------------
(***************************************************************************)
(* Solving under assumptions and a constraint, again and again, without    *)
(* taking back the whole trail in between (ILB, 'incremental lazy          *)
(* backtracking'): clauses, assumptions and constraints arrive while the   *)
(* trail of the last call still stands, 'solve' keeps the decisions that   *)
(* the new assumptions repeat, and the analysis of a failed call names the *)
(* assumptions to blame.  Search is the original loop of the reader (--rs=0), *)
(* over module Chrono; who is decided, and the limits, are left open.  No  *)
(* inprocessing, lucky phases, OTFS and minimisation here.                 *)
(***************************************************************************)
EXTENDS Chrono

CONSTANTS
  Inputs,   \* the calls of a user: chrono, ilb, ilbassumptions and rounds, a
            \* sequence of sequences of calls [op, arg] before each 'solve'
  MaxFlips  \* bound on the flips after a satisfiable call

ASSUME IncrementalAssumption == MaxFlips \in Nat

VARIABLES
  input,
  e,           \* the solver, see Chrono
  round, calls, \* the number of the round, the calls to come before 'solve'
  phase,       \* "input", "loop" or "answered"
  result,      \* 10, 20 or 0
  assumptions, \* as sorted by the solver
  assumed,     \* external->assumptions, as given
  constraint, constrained, \* what is left of the constraint; as given, <<>> for none
  unsat_constraint, marked_failed,
  failed,      \* the literals with the failed bit
  flips,
  given        \* ghost: all clauses added so far

api == <<input, round, given>>
vars == <<api, e, calls, phase, result, assumptions, assumed, constraint, constrained,
          unsat_constraint, marked_failed, failed, flips>>

Init ==
  /\ input \in Inputs
  /\ e = Fresh(input.chrono) /\ round = 1 /\ calls = input.rounds[1] /\ phase = "input"
  /\ result = 0 /\ assumptions = <<>> /\ assumed = <<>>
  /\ constraint = <<>> /\ constrained = <<>>
  /\ unsat_constraint = FALSE /\ marked_failed = TRUE /\ failed = {}
  /\ flips = 0 /\ given = <<>>

-----------------------------------------------------------------------------
\* add_new_original_clause, with original clauses that come from the user.
BacktrackForClause(s) ==
  IF Level(s) > 0 /\ ~input.ilb THEN Backtrack(s, 0)
  ELSE IF s.tainted # 0 THEN Backtrack(s, LevelOf(s, s.tainted) - 1) ELSE s

\* A literal is a better watch than another: true ones on low levels, then
\* unassigned ones, then false ones on high levels (move_literal_to_watch).
BetterWatch(s, l, k) ==
  CASE Val(s, l) < 0 -> Val(s, k) < 0 /\ LevelOf(s, l) > LevelOf(s, k)
    [] Val(s, l) > 0 -> Val(s, k) <= 0 \/ LevelOf(s, l) < LevelOf(s, k)
    [] Val(s, l) = 0 -> Val(s, k) < 0
BestWatch(s, c, i) ==
  FoldLeft(LAMBDA m, n : IF n > i /\ BetterWatch(s, c[n], c[m]) THEN n ELSE m, i, [n \in DOMAIN c |-> n])
MovedToWatch(s, c) ==
  IF Level(s) = 0 THEN c ELSE FoldLeft(LAMBDA d, i : Swapped(d, i, BestWatch(s, d, i)), c, <<1, 2>>)

\* handle_external_clause for clause k
HandleClause(s, k) ==
  LET pos0 == s.db[k][1]
      pos1 == s.db[k][2]
      l1 == LevelOf(s, pos1)
      back == IF UseChrono(s) THEN s ELSE Backtrack(s, l1)
  IN IF Level(s) = 0 \/ Val(s, pos1) >= 0 \/ Val(s, pos0) > 0 THEN s
     ELSE IF Val(back, pos0) < 0 THEN Backtrack(back, l1 - 1)
     ELSE SearchAssign(back, pos0, k)

Learned(S) == {IF s.conflict # None THEN [s EXCEPT !.unsat = TRUE, !.conflict = None] ELSE s : s \in S}

\* assign_original_unit, after backtracking; propagates
AssignUnit(s, l) ==
  LET back == IF Val(s, l) < 0 THEN Backtrack(s, LevelOf(s, l) - 1) ELSE s
  IN Learned(Propagations(SearchAssign(Backtrack(back, 0), l, None)))

AddedClause(s, c) ==
  LET rest == SelectSeq(c, LAMBDA l : Fixed(s, l) = 0)
  IN IF s.unsat \/ (\E l \in ToSet(c) : Fixed(s, l) > 0 \/ Contains(c, -l)) THEN {s}
     ELSE IF Len(rest) = 0 THEN {[s EXCEPT !.unsat = TRUE]}
     ELSE IF Len(rest) = 1 THEN AssignUnit(s, rest[1])
     ELSE {HandleClause([s EXCEPT !.db = Append(@, MovedToWatch(s, rest))], Len(s.db) + 1)}

Next1 == Head(calls)
Calling(op) == phase = "input" /\ calls # <<>> /\ Next1.op = op /\ calls' = Tail(calls)
SolverOnly == UNCHANGED <<input, round, phase, result, flips>>

AddClause ==
  /\ Calling("add")
  /\ given' = Append(given, Next1.arg)
  /\ e' \in AddedClause(BacktrackForClause(e), Next1.arg)
  /\ SolverOnly
  /\ UNCHANGED <<assumptions, assumed, constraint, constrained, unsat_constraint, marked_failed, failed>>

\* assume; a literal that is assumed already is ignored.
Assume ==
  /\ Calling("assume")
  /\ LET l == Next1.arg IN
     /\ e' = IF Level(e) > 0 /\ ~input.ilbassumptions THEN Backtrack(e, 0)
             ELSE IF Val(e, l) < 0 THEN Backtrack(e, Max({0, LevelOf(e, l) - 1})) ELSE e
     /\ assumed' = Append(assumed, l)
     /\ assumptions' = IF Contains(assumptions, l) THEN assumptions ELSE Append(assumptions, l)
  /\ SolverOnly
  /\ UNCHANGED <<given, constraint, constrained, unsat_constraint, marked_failed, failed>>

\* constrain, up to and with the final zero
Shrunken(s, C) == SelectSeq(C, LAMBDA l : Val(s, l) = 0)
Constrain ==
  /\ Calling("constrain")
  /\ e' = Backtrack(e, 0)
  /\ constrained' = Next1.arg
  /\ LET C == Next1.arg
         true == \E l \in ToSet(C) : Val(e', l) > 0 \/ Contains(C, -l)
     IN /\ constraint' = IF true THEN <<>> ELSE Shrunken(e', C)
        /\ unsat_constraint' = (~true /\ constraint' = <<>>)
        /\ marked_failed' = IF unsat_constraint' /\ ~e.unsat THEN FALSE ELSE marked_failed \/ constrained # <<>>
  /\ SolverOnly
  /\ UNCHANGED <<given, assumptions, assumed, failed>>

-----------------------------------------------------------------------------
\* sort_and_reuse_assumptions
Rank(s, a, b) ==
  LET level(l) == IF Val(s, l) = 0 THEN Level(s) + 1 ELSE LevelOf(s, l)
      place(l) == IF Val(s, l) = 0 THEN Idx(l) ELSE PosOf(s, l)
  IN level(a) < level(b) \/ (level(a) = level(b) /\ place(a) < place(b))
Sorted(s, A) == SetToSortSeq(ToSet(A), LAMBDA a, b : Rank(s, a, b) \/ (~Rank(s, b, a) /\ a > b))

\* Mutant: levels are kept up to the last assumption that is assigned.
ReusedSloppy(s, A) ==
  Max({0} \cup {LevelOf(s, a) : a \in {b \in ToSet(A) : Val(s, b) # 0}})

\* The levels, from the first on, whose decisions are assumptions: propagated
\* assumptions are skipped, and pseudo levels end it.
Reused(s, A) == Max({0} \cup {i \in DOMAIN s.control : \A k \in 1 .. i : Contains(A, s.control[k].decision)})

\* solve and already_solved
Solve ==
  /\ phase = "input" /\ calls = <<>>
  /\ LET sorts == input.ilb /\ input.ilbassumptions /\ assumptions # <<>>
         reused == IF sorts THEN Backtrack(e, Reused(e, assumptions)) ELSE e
         start == IF Level(e) > 0 /\ ~input.ilb THEN Backtrack(e, 0) ELSE reused
     IN /\ assumptions' = IF sorts THEN Sorted(e, assumptions) ELSE assumptions
        /\ IF e.unsat \/ unsat_constraint
           THEN e' = reused /\ result' = 20 /\ phase' = "answered"
           ELSE /\ e' \in IF Level(start) = 0 THEN Learned(Propagations(start)) ELSE {start}
                /\ result' = IF e'.unsat THEN 20 ELSE 0
                /\ phase' = IF e'.unsat THEN "answered" ELSE "loop"
  /\ UNCHANGED <<api, calls, assumed, constraint, constrained, unsat_constraint, marked_failed,
                 failed, flips>>

-----------------------------------------------------------------------------
\* The loop (cdcl_loop_with_inprocessing2)
Waiting == UNCHANGED <<api, calls, assumptions, assumed, constraint, constrained, failed, flips>>
Looping == phase = "loop" /\ ~e.unsat
Quiet == Looping /\ e.propagated = Len(e.trail)
Goes(E) == e' \in E /\ UNCHANGED <<phase, result, unsat_constraint, marked_failed>>
Answers(res) == result' = res /\ phase' = "answered" /\ UNCHANGED e

PropagateAndAnalyze ==
  /\ Looping /\ e.propagated < Len(e.trail)
  /\ Goes(UNION {IF f.conflict = None THEN {f} ELSE Analyzed(f, Len(assumptions)) : f \in Propagations(e)})
  /\ Waiting

Inconsistent ==
  /\ phase = "loop" /\ e.unsat
  /\ Answers(20)
  /\ Waiting /\ UNCHANGED <<unsat_constraint, marked_failed>>

Satisfied ==
  /\ Level(e) >= Len(assumptions) + (IF constraint = <<>> THEN 0 ELSE 1)
  /\ Len(e.trail) = MaxVar

FindModel ==
  /\ Quiet /\ Satisfied
  /\ Answers(10)
  /\ Waiting /\ UNCHANGED <<unsat_constraint, marked_failed>>

\* A limit is hit, or the user terminates: assumptions and constraint are gone.
Interrupt ==
  /\ Quiet /\ ~Satisfied
  /\ Answers(0)
  /\ assumptions' = <<>> /\ assumed' = <<>> /\ constraint' = <<>> /\ constrained' = <<>>
  /\ unsat_constraint' = FALSE /\ marked_failed' = TRUE /\ failed' = {}
  /\ UNCHANGED <<api, calls, flips>>

\* restart, with reuse_trail left open
Restart ==
  /\ Quiet /\ ~Satisfied /\ Level(e) >= Len(assumptions) + 2
  /\ LET trivial == Len(assumptions) + (IF e.control[Len(assumptions) + 1].decision = 0 THEN 1 ELSE 0)
     IN Goes({Backtrack(e, level) : level \in trivial .. Level(e) - 1})
  /\ Waiting

Deciding == Quiet /\ ~Satisfied

DecideAssumption ==
  /\ Deciding /\ Level(e) < Len(assumptions)
  /\ LET l == assumptions[Level(e) + 1] IN
     /\ Val(e, l) >= 0
     /\ Goes({IF Val(e, l) > 0 THEN NewTrailLevel(e, 0) ELSE SearchAssumeDecision(e, l)})
  /\ Waiting

AssumptionFalsified ==
  /\ Deciding /\ Level(e) < Len(assumptions)
  /\ Val(e, assumptions[Level(e) + 1]) < 0
  /\ Answers(20) /\ marked_failed' = FALSE
  /\ Waiting /\ UNCHANGED unsat_constraint

AtConstraint == Deciding /\ Level(e) = Len(assumptions) /\ constraint # <<>>

DecideConstraint ==
  /\ AtConstraint
  /\ LET open == {l \in ToSet(constraint) : Val(e, l) = 0} IN
     Goes(IF \E l \in ToSet(constraint) : Val(e, l) > 0 THEN {NewTrailLevel(e, 0)}
          ELSE {SearchAssumeDecision(e, l) : l \in open})
  /\ Waiting

ConstraintFalsified ==
  /\ AtConstraint /\ \A l \in ToSet(constraint) : Val(e, l) < 0
  /\ Answers(20) /\ unsat_constraint' = TRUE /\ marked_failed' = FALSE
  /\ Waiting

Decide ==
  /\ Deciding /\ Level(e) >= Len(assumptions) /\ ~AtConstraint
  /\ Goes({SearchAssumeDecision(e, l) : l \in {k \in Lit : Val(e, k) = 0}})
  /\ Waiting

-----------------------------------------------------------------------------
\* failing: the first assumption that is false on the root level, else one that
\* clashes with a decision, else the one of the lowest level.
Falsified == {n \in DOMAIN assumed : Val(e, assumed[n]) < 0}
OnRoot(n) == LevelOf(e, assumed[n]) = 0
Clashing(n) == ~OnRoot(n) /\ ReasonOf(e, assumed[n]) = None
FirstOf(S) == assumed[Min(S)]
Lowest == {n \in Falsified : \A m \in Falsified : LevelOf(e, assumed[n]) <= LevelOf(e, assumed[m])}

\* Mutant: only the reasons of the failed literals themselves are looked at.
AncestorsNear(s, L) ==
  L \cup UNION {{-k : k \in ToSet(s.db[ReasonOf(s, l)]) \ {l}} : l \in {j \in L : ReasonOf(s, j) # None}}

\* The true literals that the true literals L follow from.
Ancestors(s, L) ==
  FoldLeft(LAMBDA S, n : S \cup UNION {{-k : k \in ToSet(s.db[ReasonOf(s, l)]) \ {l}} :
                                         l \in {j \in S : ReasonOf(s, j) # None}},
           L, [n \in Var |-> n])
DecisionsOf(L) == {l \in Ancestors(e, L) : LevelOf(e, l) > 0 /\ ReasonOf(e, l) = None}

Core ==
  IF unsat_constraint THEN DecisionsOf({-l : l \in ToSet(constraint)})
  ELSE IF \E n \in Falsified : OnRoot(n) THEN {FirstOf({n \in Falsified : OnRoot(n)})}
  ELSE IF \E n \in Falsified : Clashing(n)
  THEN LET l == FirstOf({n \in Falsified : Clashing(n)}) IN {l, -l}
  ELSE {FirstOf(Lowest)} \cup DecisionsOf({-FirstOf(Lowest)})

Failing ==
  /\ phase = "answered" /\ result = 20 /\ ~marked_failed /\ ~e.unsat
  /\ failed' = Core /\ marked_failed' = TRUE
  /\ e' = Expect(e, Core \subseteq ToSet(assumptions), "failing")
  /\ UNCHANGED <<api, calls, phase, result, assumptions, assumed, constraint, constrained,
                 unsat_constraint, flips>>

\* The clauses k in K watch any true literal instead of the false literal p[k].
TrueRest(s, k) == {n \in 3 .. Len(s.db[k]) : Val(s, s.db[k][n]) > 0}
Rewatched(s, K, p) ==
  {[s EXCEPT !.db = [k \in DOMAIN @ |-> IF k \in K THEN WatchMoved(@[k], p[k], f[k]) ELSE @[k]]] :
     f \in {g \in [K -> 3 .. MaxVar] : \A k \in K : g[k] \in TrueRest(s, k)}}

\* propergate: propagation without blocking literals; a clause without a true
\* watch is rewatched when its first false watch is visited.
FirstWatch(s, c) == IF PosOf(s, c[1]) < PosOf(s, c[2]) THEN c[1] ELSE c[2]
Propergations(s) ==
  LET K == {k \in DOMAIN s.db : Val(s, s.db[k][1]) < 0 /\ Val(s, s.db[k][2]) < 0}
  IN Rewatched(s, K, [k \in K |-> FirstWatch(s, s.db[k])])

\* flip: succeeds if the clauses that watch the literal have another true literal,
\* which they watch then.
NeedingWatch(s, l) == {k \in Watching(s, l) : Val(s, OtherWatch(s.db[k], l)) < 0}
Flips(s, l) ==
  {[f EXCEPT !.trail[PosOf(s, l)] = -l,
             !.tainted = IF ~input.ilb THEN 0 ELSE IF @ = 0 \/ LevelOf(s, l) < LevelOf(s, @) THEN l ELSE @] :
     f \in Rewatched(s, NeedingWatch(s, l), [k \in NeedingWatch(s, l) |-> l])}

Flip ==
  /\ phase = "answered" /\ result = 10 /\ flips < MaxFlips
  /\ \E l \in TrueLits(e), s \in Propergations(e) :
       /\ LevelOf(e, l) > 0
       /\ e' \in IF \A k \in NeedingWatch(s, l) : TrueRest(s, k) # {} THEN Flips(s, l) ELSE {s}
  /\ flips' = flips + 1
  /\ UNCHANGED <<api, calls, phase, result, assumptions, assumed, constraint, constrained,
                 unsat_constraint, marked_failed, failed>>

\* The next call: assumptions and constraint are reset (transition_to_steady_state).
NextRound ==
  /\ phase = "answered" /\ round < Len(input.rounds)
  /\ round' = round + 1 /\ calls' = input.rounds[round + 1] /\ phase' = "input" /\ result' = 0
  /\ assumptions' = <<>> /\ assumed' = <<>> /\ constraint' = <<>> /\ constrained' = <<>>
  /\ unsat_constraint' = FALSE /\ marked_failed' = TRUE /\ failed' = {} /\ flips' = 0
  /\ UNCHANGED <<input, e, given>>

Next ==
  \/ AddClause \/ Assume \/ Constrain \/ Solve
  \/ PropagateAndAnalyze \/ Inconsistent \/ FindModel \/ Interrupt \/ Restart
  \/ DecideAssumption \/ AssumptionFalsified \/ DecideConstraint \/ ConstraintFalsified \/ Decide
  \/ Failing \/ Flip \/ NextRound

Spec == Init /\ [][Next]_vars

-----------------------------------------------------------------------------
Given == {ToSet(given[n]) : n \in DOMAIN given}
Constrained == IF constrained = <<>> THEN {} ELSE {ToSet(constrained)}
Units(L) == {{l} : l \in L}

\* A model satisfies everything that was added, also after flips, and before them
\* the assumptions and the constraint; after 20 there is no such model
\* (External::check_satisfiable).
AnswersRight ==
  phase = "answered" =>
    /\ result = 10 =>
         /\ \A n \in DOMAIN given : ToSet(given[n]) \cap TrueLits(e) # {}
         /\ flips = 0 => /\ ToSet(assumed) \subseteq TrueLits(e)
                         /\ \A C \in Constrained : C \cap TrueLits(e) # {}
    /\ result = 20 => Models(Given \cup Units(ToSet(assumed)) \cup Constrained) = {}

\* The assumptions that are reported as failed, and the constraint if it is, are
\* enough for the formula to have no model (External::check_failing).
CoreFails ==
  (phase = "answered" /\ result = 20 /\ (marked_failed \/ e.unsat)) =>
    /\ failed \subseteq ToSet(assumed)
    /\ Models(Given \cup Units(failed) \cup (IF unsat_constraint THEN Constrained ELSE {})) = {}

\* What search relies on although literals stay on the trail out of order and
\* clauses arrive on any level: reasons force their literals, whose level is the
\* highest of the reason, the trail below a level holds the literals decided so
\* far, no falsified clause goes unnoticed, and no assertion fails.
ReasonForces(n) ==
  LET l == e.trail[n]
      others == ToSet(e.db[ReasonOf(e, l)]) \ {l}
  IN ReasonOf(e, l) # None =>
       /\ Contains(e.db[ReasonOf(e, l)], l)
       /\ \A k \in others : Contains(SubSeq(e.trail, 1, n - 1), -k) /\ LevelOf(e, k) <= LevelOf(e, l)
SearchHolds ==
  /\ e.broken = {}
  /\ Looping /\ e.tainted = 0 => \A n \in DOMAIN e.trail : ReasonForces(n)
  /\ Looping => \A i \in DOMAIN e.control : e.control[i].decision # 0 =>
                  LevelOf(e, e.control[i].decision) = i
  /\ Quiet => \A k \in DOMAIN e.db : \E l \in ToSet(e.db[k]) : Val(e, l) >= 0
=============================================================================
