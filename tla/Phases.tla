------------------------------- MODULE Phases -------------------------------
(***************************************************************************)
(* Phases of decisions: saved by each assignment of search, forced by the  *)
(* user, and the target and best phases copied from the largest trails     *)
(* without conflict (backtrack.cpp), with rephasing (rephase.cpp).  Search *)
(* is unit propagation, any decision variable, and back jumps to a level   *)
(* where a consequence of the decisions is unit; lemmas are not kept.      *)
(***************************************************************************)
EXTENDS Formula

CONSTANTS
  Inputs,       \* sets of clauses
  Options,      \* records of options and of the settings of a run
  Forceable,    \* literals the user may call 'phase' with
  MaxConflicts, MaxRephases \* bounds of the instance

ASSUME PhasesAssumption ==
  /\ \A F \in Inputs : F \subseteq (SUBSET Lit) \ {{}}
  /\ Options \subseteq [phase : BOOLEAN, forcephase : BOOLEAN, target : 0 .. 2,
                       stabilize : BOOLEAN, stabilizeonly : BOOLEAN,
                       walk : BOOLEAN, walknonstable : BOOLEAN]
  /\ Forceable \subseteq Lit /\ MaxConflicts \in Nat /\ MaxRephases \in Nat

VARIABLES
  formula, opts,
  trail, control, \* control[n]: literals on the trail below level n
  conflict,       \* whether propagation has failed
  saved, target, best, forced,
  no_conflict_until, target_assigned, best_assigned,
  stable, limStabilize, conflicts, rephased, \* rephased: the kind done last, or "none"
  lastRephase,    \* conflicts at the last rephasing
  count,          \* lim.rephased, for the unstable and the stable phase
  targetTrail, bestTrail \* the trails target and best were copied from

search == <<trail, control, conflict>>
copies == <<target, best, target_assigned, best_assigned, targetTrail, bestTrail>>
schedules == <<stable, limStabilize, rephased, lastRephase, count>>
vars == <<formula, opts, search, saved, forced, no_conflict_until, copies, conflicts, schedules>>

Initial == IF opts.phase THEN 1 ELSE -1
AllVars(x) == [v \in Var |-> x]

Init ==
  /\ formula \in Inputs /\ opts \in Options
  /\ trail = <<>> /\ control = <<>> /\ conflict = FALSE
  /\ saved = AllVars(Initial) /\ target = AllVars(0) /\ best = AllVars(0) /\ forced = AllVars(0)
  /\ no_conflict_until = 0 /\ target_assigned = 0 /\ best_assigned = 0
  /\ stable = (opts.stabilize /\ opts.stabilizeonly) /\ conflicts = 0 /\ limStabilize = 1
  /\ rephased = "none" /\ lastRephase = 0 /\ count = [s \in BOOLEAN |-> 0]
  /\ targetTrail = <<>> /\ bestTrail = <<>>

-----------------------------------------------------------------------------
Level == Len(control)
Sign(l) == IF l > 0 THEN 1 ELSE -1
True == ToSet(trail)
Unassigned == {v \in Var : {v, -v} \cap True = {}}
Units == {l \in Lit : Idx(l) \in Unassigned /\ \E C \in formula : l \in C /\ Negated(C \ {l}) \subseteq True}
Falsified == {C \in formula : Negated(C) \subseteq True}
Decisions == {trail[control[n] + 1] : n \in 1 .. Level}

\* search_assign saves the phase.
Assign(t, l) == trail' = Append(t, l) /\ saved' = [saved EXCEPT ![Idx(l)] = Sign(l)]

Propagate(l) ==
  /\ ~conflict /\ Falsified = {} /\ l \in Units /\ Assign(trail, l)
  /\ UNCHANGED <<formula, opts, control, conflict, forced, no_conflict_until, copies, conflicts, schedules>>

\* Mutant: all of the trail is taken to be free of conflicts.
UntilAll(level) == Len(trail)

\* The end of propagate: what is below the level of the conflict had none.
Until(level) == control[level]

Conflict ==
  /\ ~conflict /\ Falsified # {} /\ Level > 0 /\ conflicts < MaxConflicts
  /\ conflict' = TRUE /\ conflicts' = conflicts + 1
  /\ no_conflict_until' = Until(Level)
  /\ UNCHANGED <<formula, opts, trail, control, saved, forced, copies, schedules>>

NoConflict ==
  /\ ~conflict /\ Falsified = {} /\ Units = {} /\ no_conflict_until # Len(trail)
  /\ no_conflict_until' = Len(trail)
  /\ UNCHANGED <<formula, opts, search, saved, forced, copies, conflicts, schedules>>

Idle == ~conflict /\ Falsified = {} /\ Units = {} /\ no_conflict_until = Len(trail)

-----------------------------------------------------------------------------
\* decide_phase, with force_saved_phase off
DecidePhase(v, useTarget) ==
  IF forced[v] # 0 THEN forced[v]
  ELSE IF opts.forcephase THEN Initial
  ELSE IF useTarget /\ target[v] # 0 THEN target[v]
  ELSE IF saved[v] # 0 THEN saved[v] ELSE Initial

UseTarget == opts.target > 1 \/ (stable /\ opts.target > 0)

Decide(v) ==
  /\ Idle /\ v \in Unassigned
  /\ control' = Append(control, Len(trail)) /\ Assign(trail, v * DecidePhase(v, UseTarget))
  /\ UNCHANGED <<formula, opts, conflict, forced, no_conflict_until, copies, conflicts, schedules>>

-----------------------------------------------------------------------------
Larger(assigned) == no_conflict_until > assigned

\* update_target_and_best, before literals are unassigned
Reset == rephased # "none" /\ conflicts > lastRephase
OldTarget == IF Reset THEN 0 ELSE target_assigned
OldBest == IF Reset /\ rephased = "best" THEN 0 ELSE best_assigned
ConflictFree == SubSeq(trail, 1, no_conflict_until)

TargetCopied ==
  IF Larger(OldTarget) THEN [phases |-> saved, assigned |-> no_conflict_until, from |-> ConflictFree]
  ELSE [phases |-> target, assigned |-> OldTarget, from |-> targetTrail]

BestCopied ==
  IF Larger(OldBest) THEN [phases |-> saved, assigned |-> no_conflict_until, from |-> ConflictFree]
  ELSE [phases |-> best, assigned |-> OldBest, from |-> bestTrail]

SetTarget(t) == target' = t.phases /\ target_assigned' = t.assigned /\ targetTrail' = t.from
SetBest(b) == best' = b.phases /\ best_assigned' = b.assigned /\ bestTrail' = b.from

Below(level) == SubSeq(trail, 1, control[level + 1])
Backtrack(level) ==
  /\ SetTarget(TargetCopied) /\ SetBest(BestCopied)
  /\ rephased' = IF Reset THEN "none" ELSE rephased
  /\ control' = SubSeq(control, 1, level)
  /\ no_conflict_until' = Min({no_conflict_until, control[level + 1]})

\* analyze: a literal is driven on a level on which the decisions imply it.
Driven(level) ==
  {l \in Negated({trail[n] : n \in control[level + 1] + 1 .. Len(trail)}) :
     Entails(formula \cup {{d} : d \in {trail[control[n] + 1] : n \in 1 .. level}}, {l})}

Analyze(level, l) ==
  /\ conflict /\ level < Level /\ l \in Driven(level)
  /\ Backtrack(level) /\ conflict' = FALSE
  /\ Assign(Below(level), l)
  /\ UNCHANGED <<formula, opts, forced, conflicts, stable, limStabilize, lastRephase, count>>

\* restart, with any part of the trail reused
Restart(level) ==
  /\ Idle /\ level < Level
  /\ Backtrack(level) /\ trail' = Below(level)
  /\ UNCHANGED <<formula, opts, conflict, saved, forced, conflicts, stable, limStabilize, lastRephase, count>>

\* stabilizing, with the shortest intervals (see Reluctant)
Stabilizing ==
  /\ Idle /\ opts.stabilize /\ ~(stable /\ opts.stabilizeonly) /\ Level > 1
  /\ conflicts >= limStabilize
  /\ stable' = ~stable /\ limStabilize' = conflicts + 1
  /\ UNCHANGED <<formula, opts, search, saved, forced, no_conflict_until, copies, conflicts, rephased, lastRephase, count>>

-----------------------------------------------------------------------------
Kinds == {"original", "inverted", "flipping", "random", "best", "walk"}
In(pattern, n) == pattern[(n % Len(pattern)) + 1]

\* The schedules of rephase.
Kind(n) ==
  LET single == ~opts.stabilize \/ opts.stabilizeonly
  IN CASE single /\ ~opts.walk ->
            In(<<"inverted", "best", "flipping", "best", "random", "best", "original", "best">>, n)
       [] single /\ opts.walk ->
            In(<<"inverted", "best", "walk", "flipping", "best", "walk",
                 "random", "best", "walk", "original", "best", "walk">>, n)
       [] ~single /\ stable ->
            IF n < 2 THEN In(<<"original", "inverted">>, n)
            ELSE IF opts.walk THEN In(<<"best", "walk", "original", "best", "walk", "inverted">>, n - 2)
            ELSE In(<<"best", "original", "best", "inverted">>, n - 2)
       [] ~single /\ ~stable ->
            IF n = 0 THEN "flipping"
            ELSE IF opts.walk /\ opts.walknonstable
                 THEN In(<<"random", "best", "walk", "flipping", "best", "walk">>, n - 1)
                 ELSE In(<<"random", "best", "flipping", "best">>, n - 1)

\* What each kind makes of the saved phases; local search and the random bits
\* may choose any.
Rephased(kind, b) ==
  CASE kind = "original" -> {AllVars(Initial)}
    [] kind = "inverted" -> {AllVars(-Initial)}
    [] kind = "flipping" -> {[v \in Var |-> -saved[v]]}
    [] kind = "best" -> {[v \in Var |-> IF b[v] # 0 THEN b[v] ELSE saved[v]]}
    [] kind \in {"random", "walk"} -> [Var -> {-1, 1}]

NoTarget == [phases |-> AllVars(0), assigned |-> 0, from |-> <<>>]

\* rephase: back to the root level first, which may copy the best phases once
\* more, then the target phases are cleared.
Rephase ==
  /\ Idle /\ ~opts.forcephase /\ conflicts > lastRephase /\ count[stable] < MaxRephases
  /\ \E b \in {IF Level > 0 THEN BestCopied ELSE [phases |-> best, assigned |-> best_assigned, from |-> bestTrail]} :
       /\ SetBest(b) /\ SetTarget(NoTarget)
       /\ saved' \in Rephased(Kind(count[stable]), b.phases)
  /\ trail' = IF Level > 0 THEN Below(0) ELSE trail
  /\ control' = <<>> /\ no_conflict_until' = Len(trail')
  /\ rephased' = Kind(count[stable]) /\ lastRephase' = conflicts
  /\ count' = [count EXCEPT ![stable] = @ + 1]
  /\ UNCHANGED <<formula, opts, conflict, forced, conflicts, stable, limStabilize>>

\* phase and unphase, called between two searches
Phase(l) ==
  /\ Level = 0 /\ ~conflict /\ Sign(l) # forced[Idx(l)] /\ forced' = [forced EXCEPT ![Idx(l)] = Sign(l)]
  /\ UNCHANGED <<formula, opts, search, saved, no_conflict_until, copies, conflicts, schedules>>

Unphase(l) ==
  /\ Level = 0 /\ ~conflict /\ forced[Idx(l)] # 0 /\ forced' = [forced EXCEPT ![Idx(l)] = 0]
  /\ UNCHANGED <<formula, opts, search, saved, no_conflict_until, copies, conflicts, schedules>>

Next ==
  \/ \E l \in Lit : Propagate(l)
  \/ Conflict \/ NoConflict
  \/ \E v \in Var : Decide(v)
  \/ \E level \in 0 .. Level - 1 : Restart(level) \/ \E l \in Lit : Analyze(level, l)
  \/ Stabilizing \/ Rephase
  \/ \E l \in Forceable : Phase(l) \/ Unphase(l)

Spec == Init /\ [][Next]_vars

-----------------------------------------------------------------------------
TypeOK ==
  /\ formula \in Inputs /\ opts \in Options
  /\ trail \in Seq(Lit) /\ control \in Seq(Nat) /\ conflict \in BOOLEAN
  /\ saved \in [Var -> {-1, 1}]
  /\ {target, best, forced} \subseteq [Var -> {-1, 0, 1}]
  /\ {no_conflict_until, target_assigned, best_assigned, conflicts, lastRephase, limStabilize}
       \subseteq Nat
  /\ stable \in BOOLEAN /\ count \in [BOOLEAN -> Nat] /\ rephased \in Kinds \cup {"none"}
  /\ targetTrail \in Seq(Lit) /\ bestTrail \in Seq(Lit)

RootSize == IF Level > 0 THEN control[1] ELSE Len(trail)
RootLits == {trail[n] : n \in 1 .. RootSize}
Replays(phases, from) == \A l \in ToSet(from) \ RootLits : phases[Idx(l)] = Sign(l)
ConflictFreeTrail(from) == \A C \in formula : ~(Negated(C) \subseteq ToSet(from))

\* No variable is assigned twice, and the levels cut the trail in their order.
TrailOrdered ==
  /\ \A m, n \in DOMAIN trail : Idx(trail[m]) = Idx(trail[n]) => m = n
  /\ \A n \in DOMAIN control : control[n] <= Len(trail)
  /\ \A m, n \in DOMAIN control : m <= n => control[m] <= control[n]
  /\ no_conflict_until <= Len(trail)

\* Above the root level the saved phases are those of the trail: rephasing, which
\* changes them, goes back to the root level first.
PhasesSaved == \A n \in RootSize + 1 .. Len(trail) : saved[Idx(trail[n])] = Sign(trail[n])

\* What was on the trail below each decision, and up to no_conflict_until,
\* falsifies no clause.
PrefixesFree ==
  \A n \in ToSet(control) \cup {no_conflict_until} : ConflictFreeTrail(SubSeq(trail, 1, n))

TargetTrailKept ==
  /\ Replays(target, targetTrail) /\ ConflictFreeTrail(targetTrail)
  /\ target_assigned \in {0, Len(targetTrail)}

\* The same for the best phases, which rephase_best makes the saved ones.
BestTrailKept ==
  /\ Replays(best, bestTrail) /\ ConflictFreeTrail(bestTrail)
  /\ best_assigned \in {0, Len(bestTrail)}

\* After rephasing, search follows the new phases: nothing of the target from
\* before is left until a trail without conflict was seen.
TargetCleared == target_assigned = 0 /\ rephased # "none" => target = AllVars(0)

\* 'The target and best phases are those saved at the largest trail without
\* conflict' (rephase.cpp, backtrack.cpp): deciding with the target phases
\* assigns that trail again, and so for the best phases, whatever rephasing and
\* restarts did meanwhile, and target_assigned is its height.
TargetReplays == TargetTrailKept /\ BestTrailKept /\ TargetCleared

\* The inductive invariant behind it.
PhasesInv == TypeOK /\ TrailOrdered /\ PhasesSaved /\ PrefixesFree /\ TargetReplays
=============================================================================
