# Verification of the proof simulation programs

TLA+ models, TLC runs and TLAPS proofs for the programs of "An Empirical Look at
the Equivalence between Resolution and CDCL": a sequence **writer** that turns a
resolution proof into a branching sequence, and a sequence **reader** that
replays the sequence on a CDCL solver to get the proof back.

Below, `W/` is `src/proof-simulation-write-sequence/src/` and `R/` is
`src/proof-simulation-read-sequence/src/`. Both are CaDiCaL 2.0.0 with changes; the
changed files are `simulate.cpp` (new), `analyze.cpp`, `propagate.cpp`,
`clause.cpp`, `watch.cpp`, `internal.*`, `cadical.cpp` and a few statistics. Where
the two trees hold the same code, `map` in PROJECT.json names the lines of one, and the definitions of one function may be spread over both.

## The system

The pipeline of the repository's README has four steps:

1. the reader with `--rs=0` is plain CaDiCaL and writes a DRAT proof;
2. `drat-trim` (outside the repository) checks it and writes the *core lemmas*;
3. the writer reads the core lemmas one by one. For each literal of a lemma that
   unit propagation cannot derive from the negations of the others (an
   *empowering* literal) it decides the negation of the lemma, that literal
   last, runs into a conflict, learns, and repeats until the lemma is
   *absorbed*. Decisions, back jumps and restarts go to the sequence file;
4. the reader with `--rs=1` replays the sequence. It decides what it is told to,
   propagates and analyses conflicts itself, and is told nothing else.

Steps 3 and 4 run with `--plain --chrono=0 --inprocessing=false --walk=false`. That
leaves on-the-fly strengthening (`otfs=1`), `shrink=3`, `minimize=1` and
`eagersubsume=1` switched on. Step 1 is the whole solver: heuristics, reduction,
proof output, and, by other options or through the API, inprocessing, chronological
backtracking and incremental solving.

The writer must know whether a lemma is absorbed *without disturbing* the order of
literals and watches its own conflicts depend on, for the reader will not repeat
the probing. It therefore stores every clause twice: copy 1 (`watches`,
`propagate`) is what the reader will have, copy 2 (`watches2`, `propagate2`) is for
probes. `clause_map` leads from copy 1 to copy 2. Most of what can go wrong in the
new code is about the two copies drifting apart, or the reader drifting from copy 1.

### Inventory

| Component | State | Operations | Interaction | What makes it correct |
|---|---|---|---|---|
| Sequence writer, `W/simulate.cpp` | lemma, empowering literals left, `last_level_DB_status`, `found_equal_lemma` | `write_branching_sequence`, `has_next_lemma`, `scan_possible_empow_lit`, `is_literal_empowering*_revert`, `check_and_count` | reads the core file, drives its solver, writes the words | each lemma is absorbed when done; the words are enough; the loops end |
| Sequence reader, `R/simulate.cpp` | position in the file | `read_branch_sequence` | reads the words, drives its solver | repeats the writer's run on copy 1; reaches the refutation |
| Propagation, `propagate.cpp`, `watch.hpp` | trail, values, `propagated`, watch lists, saved positions | `search_assign`, `search_assume_decision`, `propagate`, `propagate2`, `propergate` | reorders clauses, sets `conflict` | complete; watches exact |
| Analysis, `analyze.cpp` | seen literals, `open`, the clause under construction | `analyze`, `on_the_fly_strengthen[2]`, `otfs_subsume_clause`, `new_driving_clause`, eager subsumption | rewrites reasons in place, learns, back-jumps | clauses follow from the formula, literals falsified, irredundancy kept |
| Minimisation, `minimize.cpp`, `shrink.cpp` | flags keep, removable, poison; `seen.trail` per level | `shrink_and_minimize_clause` and below | called by `analyze` | the shorter clause still follows |
| Backtracking, `backtrack.cpp` | trail, control stack | `backtrack` | everyone | level and trail agree; literals out of order are propagated again |
| Clauses, `clause.cpp`, `internal.hpp` | `clauses`, `clause_map` | `new_clause[2]`, `mark_garbage`, `add_new_original_clause`, `assign_original_unit` | parser, user, analysis | copies agree, the formula is kept |
| Decisions, `queue.*`, `score.*`, `heap.hpp`, `decide.cpp`, `bump` in `analyze.cpp` | linked list with stamps, `queue.unassigned`; heap and scores | bump, `update_queue_unassigned`, `next_decision_variable*`, `rescale` | unassign moves variables back | the best unassigned variable is decided |
| Restarts and phases, `restart.cpp`, `reluctant.hpp`, `rephase.cpp`, `phases.cpp` | limits, Luby state, saved, target, best and forced phases | `restarting`, `stabilizing`, `rephase`, `update_target_and_best` | read conflicts and the trail | the schedule; the phases replay the best trail |
| Reduction, `reduce.cpp`, `collect.cpp` | clause list, watches, reasons, `used` | `reduce`, `garbage_collection` | frees and moves clauses in use | no dangling pointer, nothing needed is lost |
| Proof output, `proof.cpp`, tracers | ids, chains | `add_*`, `delete_clause`, `finalize_clause` | called at every change of a clause | the proof has what is used |
| Internal checkers, `checker.cpp`, `lratbuilder.cpp`, `lratchecker.cpp` | their own clauses, watches, trails | `add`, `check`, `delete`, `weaken`, `restore`, `finalize`, `build` | fed by `proof.cpp` | accept what follows, refuse what does not |
| Inprocessing | schedules, occurrence lists, extension stack | one file for each technique | rewrites the formula between searches | models extend; nothing is invented |
| External variables, `external.cpp`, `extend.cpp`, `restore.cpp` | map of variables, extension stack, tainted and frozen literals | `add`, `assume`, `restore_clauses`, `extend` | between user and solver | models of what is left give models of everything |
| Assumptions, `assume.cpp`, `constrain.cpp`, `flip.cpp` | assumptions, constraint, failed flags, tainted literal | `assume`, `constrain`, `failing`, `sort_and_reuse_assumptions`, `flip` | trail kept between calls of `solve` | right answers, sufficient cores |
| API, propagators, lucky phases, walk, lookahead, parser, files, options, signals, statistics | | | | |

Everything is sequential: each program is one thread, and the two run one after
the other. The hard behaviour is not concurrency but *history*: a clause is
rewritten while it is a reason, a watch list was last touched by the other copy, a
level is remembered across probes, a pointer is cached while the clause moves, a
clause removed long ago has to come back. PROJECT.json lists the hazards at their
lines with the properties that would catch them.

## The modules

```
 Formula <- Extension <- Gates <- Elim, Block <- Inprocess <-+
                 ^                                            |
                 +-- Cover, Condition, Decompose, Subsume <---+-- Simplify <- Probe, Vivify <- MCInprocessing
 Formula <- Chrono <- Incremental <- MCIncremental
 Collect <- MCCollect,   Collect <- CollectProofs <- WatchProofs (TLAPS),  CollectProofs -> Recursion
 Engine <- Analysis <- Simulation <- MCSimulation
 Cdcl <- MCCdcl,   Cdcl <- CdclProofs (TLAPS)
 Vmtf <- VmtfProofs (TLAPS),       DecisionOrder: abstract, refined by Vmtf
 Phases <- PhasesProofs (TLAPS)
 Phases <- MCSearch, which instantiates Scores and Reluctant
 Scores <- ScoresProofs -> Recursion (TLAPS)
 ProofLog <- ProofLogProofs (TLAPS)
 ProofLog, Checker, LratProof(LratBuilder, LratChecker) <- MCProof,
                                                ProofChecking: abstract, refined by Checker
```

### The search, as a machine of single steps: `Cdcl`

`Cdcl` is the conflict-driven core of both programs, and of plain CaDiCaL, as a
nondeterministic state machine. A clause is a set of literals and a flag; who
decides, which unit is propagated next, which conflict is found, what is minimised
and which subsumed clauses the bounded scan reaches is left open. Its behaviours
include those of both programs for every formula, and every restart and decision
policy. One action is one propagated literal or one step of `analyze`.

| `Cdcl` | code |
|---|---|
| `added`, `db`, `trail`, `control`, `conflict` | clauses parsed, `clauses` without garbage, `trail` with `vtab`, `control`, `conflict` |
| `phase`, `resolvent`, `first` | where in `analyze` the program is; the literals `seen` and not resolved away; `resolved == 1` at the next reason |
| `AddOriginalClause` | `add_new_original_clause` |
| `Decide`, `PropagateUnit`, `PropagateConflict`, `Backtrack` | `search_assume_decision`, `propagate`, `backtrack` |
| `StartAnalysis`, `ResolveReason`, `RootConflict` | the loop of `analyze`, `learn_empty_clause` |
| `StrengthenReason`, `StrengthenAndForce` | OTFS with more than one, with exactly one literal left on the conflict level |
| `MinimizeStep`, `Learn` | minimisation as single resolutions; driving clause, back jump, eager subsumption |

`db` is a set: two stored clauses with the same literals and flag are one there, so
`Cdcl` says nothing about how often a clause is stored.

### The two programs: `Engine`, `Analysis`, `Simulation`

`Engine` and `Analysis` are one solver instance as a *value*, with everything that
decides which conflict comes next: the order of the literals, the watch lists in
order with blocking literals and sizes, the saved search position, the order of the
clause list, stale `Var` entries. Their operators take an instance and return the
next one, so `Simulation` can hold two. `Visit` is the loop over one watch list in
`propagate`/`propagate2`; `StrengthenCopy` is what `on_the_fly_strengthen2` does to one
copy, and with one copy it is the reader's `on_the_fly_strengthen`; `SubsumeAmongLast`
is eager subsumption over the stored clauses; `ShrinkBlock` and `Removable` are
`shrink_block` and `minimize_literal`. An assertion of the code that fails puts its
name into `failed` and the program goes on, as the default build (`NDEBUG`) does.

`Simulation` is the two programs and the file between them. The writer's actions are
`ReadLemma` (read and scan), `NextEmpoweringLiteral` (one turn of the loop over the
literals up to the absorbing loop), `AbsorbLiteral` (one turn of the absorbing loop)
and `FinishLemma`; the reader has one action for each kind of word. The reader runs
after the writer in reality. It sees only the words, in order, so its state after a
prefix does not depend on when it reads it: the model lets it read each burst of
words before the writer goes on (`words = <<>>` in the writer's guards), which makes
the comparison of the two at each step possible and costs no behaviour.

The core file is the environment: `ReadLemma` takes any lemma of `core` that unit
propagation on the formula and the lemmas before it confirms, which is what
`drat-trim` guarantees. Deletion lines in the core file are skipped by the code and
have no counterpart.

### The heuristics: `Vmtf`, `Scores`, `Phases`, `Reluctant`

`Vmtf` is the decision queue with its pointers, `DecisionOrder` the same without them:
variables in a line, the latest unassigned one is decided, a bumped one goes to the
end. One action is one link followed, one bumped variable, or one backtrack with all it
unassigns, so the position that is cached in `queue.unassigned` can be wrong at any
moment in between. The list is two links for each variable, as in the code; that it is a
line is an invariant (`QueueOrdered`), not the shape of the state. `Scores` is the heap of
stable mode, `Phases` saved, target, best and forced phases over a search by unit
propagation, `Reluctant` the Luby counter with the alternation of phases.

### Memory: `Collect`

Clauses at addresses, watches and reasons that point to them, a proof as a bag of
clauses. One action per stage of `reduce` and of `garbage_collection`; `CopyClauses`
moves every clause that is kept, so a pointer that is not redirected is seen. What is
taken from a sequence is taken by position (`Filtered`, `Position`), and the loop over a
watch list is a recursive function (`Visits`), so that both can be proved about.

### Proofs: `ProofLog`, `Checker`, `LratBuilder`, `LratChecker`, `LratProof`

`ProofLog` is what the writer with its copies tells the proof, and with which ids. Root
units are learned one at a time (`PropagateUnit`, `RootConflict`) and eager subsumption
compares one pair at a time (`EagerlySubsume`, with `scan` pairs to go), so that there is
no recursion and the module can be proved about. `confused` is no state of the
code: it remembers that a copy had the id and the literals of another clause that may
propagate.
`Checker` is the DRUP checker with lazy deletion, shown to implement `ProofChecking`,
which says what any such checker promises. `LratProof` feeds the chains that
`LratBuilder` makes to `LratChecker`, through deletion, weakening and restoring.

### Changing the formula: `Extension` to `Vivify`

`Extension` is the formula as the user sees it: irredundant and redundant clauses,
pending units, the extension stack with witnesses, tainted and frozen literals.
`Gates`, `Elim` (with backward subsumption), `Block`, `Cover`, `Condition`,
`Decompose`, `Subsume` (with ternary resolution, deduplication, transitive reduction)
hold one technique each, as one action for each clause, pair or variable tried.
`Inprocess` composes elimination and blocked clauses with a user who adds clauses,
freezes, assumes and calls `solve` again; `Simplify` adds the others, `Probe` failed
literals with hyper binary resolution over its own trail, `Vivify` vivification and
instantiation over theirs.

### Solving again: `Chrono`, `Incremental`

`Chrono` is one solver as a value once more, smaller than `Engine`, with
chronological backtracking: literals keep the level they depend on, `backtrack` keeps
those of lower levels, conflicts may lie below the current level. `Incremental` is the
API around it: clauses, assumptions and a constraint arrive on the trail of the last
call, `sort_and_reuse_assumptions` keeps the levels that are assumptions again,
`failing` finds the core, `flip` changes a model in place.

### One execution, one part

`MCSearch`, `MCProof` and `MCInprocessing` join modules that share parts of the
solver. `MCSearch` and `MCProof` choose `part` in the initial state, one machine for
each execution, and the variables of the others stay at `Off` (those of `Phases` and
`ProofLog` at their start); variables that both
sides of `MCSearch` call by one name are the same field of the solver. Likewise `Cdcl`, `Simulation`,
`Inprocess` and `Incremental` take a set `Inputs` of which an execution chooses one: so a
run covers several formulas and call sequences, and a property must hold on all.

### Abstractions, and why they are right

In `Engine`, `Analysis`, `Simulation`:

- `minimize_literal` caches its results in `poison` and `removable`, and tests
  `seen.count < 2` before anything else. Blocks are processed from the lowest level
  up, so what is cached about lower levels is final, and a block of one literal is
  kept anyway: leaving the caches out changes no result. The recursion limit
  `minimizedepth` (1000) is above any depth in the runs. The flag `removable` that
  `shrink_block` sets is no cache and is modelled.
- A resolvent is a set of literals; the code's `clause`, `analyzed`, `levels` and
  the `seen` flags hold the same. `seen.trail` is not reset when OTFS restarts the
  analysis, and `low` is not either.
- `var(lit).level` and `.trail` outlive `unassign`, and in `vtab` too.
- Sorting by trail position is `InTrailOrder`; positions are unique with chrono=0,
  so it does not matter that the sort is not stable.
- Lucky phases run before the loops of both programs, learn nothing, and are the same
  code: they only change the order of literals and watches that both start from.

Elsewhere:

- Floating point numbers: scores are small integers that are divided and rounded; the
  moving averages that trigger restarts in unstable phases are left open.
- Schedules, effort limits and the order of candidates in inprocessing are left open,
  including the counters that skip a round if nothing changed (`propfixed`, the hyper
  flag in `transred`), and the `ternary` marks that are not reset. What is tried is a
  superset of what the program tries.
- Clause ids in inprocessing are positions in the input; occurrence lists are in the
  order of ids, and garbage still on them counts for their length (`stale`). Units found in an elimination round stay pending until it ends, as in
  the code. A round of `condition` runs to its end. A skipped candidate of `vivify` may
  leave literals not propagated (an over-approximation).
- Inprocessing is reached in the two programs through `preprocess`, `local_search`,
  `lucky_phases` and `lookahead` only: their `cdcl_loop_with_inprocessing` calls the
  simulation instead of the loop. The writer's `restore_clauses` and the reader's `cover`
  begin with `assert (false)`: the authors expect never to get there. They are
  modelled as they would work without the assertion, as the original mode needs them.
- `restore.cpp` reads the ids of clauses from pairs of ints of the stack with sign
  extension; ids in the runs are small.
- `Chrono` and `Incremental`: OTFS, minimisation, eager subsumption, lucky phases and
  inprocessing are off. Who is decided and up to which level a chronological
  backtrack or a restart goes are left open between the bounds of the code. So are the
  order of a watch list, blocking literals and saved positions: the clauses that watch a
  literal are visited in any order, and any literal that is not false can be the next
  watch. `propergate` leaves a
  clause with the watches it found, also if the flip fails afterwards. `failing` is
  modelled without LRAT. All variables are declared from the start.
- An assertion that does not concern state (memory, arithmetic of statistics) is
  left out.

## What is checked

Each run is one question. Every property of a passing run is also checked against a
mutated definition (`mutants` in PROJECT.json) and must fail there.

| Run | Instance | Properties |
|---|---|---|
| `cdcl` | three formulas, 3 to 5 variables | `TypeOK`; `Sound`, what is kept, forced or under analysis follows from the formula; `KeepsFormula`, the irredundant clauses imply it back; `TrailReasons`, `ResolventFalsified`, the trail justifies itself and the resolvent stays false on it; `UnsatCorrect`; `NewClauseNotSubsumed`; `ConflictHandled`, a conflict is analysed to its end |
| `simulation` | all 8 clauses of 3 variables with up to 3 of 12 lemmas; four formulas up to 8 variables and 24 clauses, chosen for a path each | `ReplayExact`, the reader has clause for clause, watch for watch the writer's copy 1; `RefutationReached`, both refute; `WatchesExact` in both copies; `LemmasAbsorbed`; `ReasonsHold`; `AssertionsHold`; `CopiesAgree`; `LearnedEntailed`; `PropagationComplete`; `UnwrittenKeepsCopyOne`, what is not in the file leaves copy 1 alone; `LemmaFinished`, a lemma taken up is finished |
| `collect` | three clauses, learning, two reductions, all addresses moved | `PointersHold`, no pointer dangles; `PropagationHolds`, what propagation relies on (`WatchesExact`, `ReasonsHold`, `PropagationComplete`) survives; `ClausesHold`, so do the formula and the proof |
| `queue` | 3 variables, both orders of enqueueing; every order of bumping, assigning, deciding, restarting and shuffling | `QueueKept`, the inductive invariant of the queue; `DecidesLatest`, the refinement; `RestartsReuseBest`, a restart keeps no decision that would not be made again |
| `search` | 3 variables; every order of bumping, assigning, restarting, rephasing, rescaling; 24 conflicts | `BestDecided`; `TargetReplays`; `RestartsScheduled` |
| `proof` | the writer's lines for six clauses, and for two formulas refuted while they are parsed; six clauses in the DRUP checker; eight in builder and LRAT checker, three deletions | `ClausesInProof`; `CheckerPromises`, the refinement; `WatchesJustified`; `ChainsAccepted` |
| `inprocessing` | some forty inputs of 4 to 5 variables, one set for each technique | `ModelsExtend`, every model extends to one of all clauses; `NothingInvented`; `FrozenKept`; `VariablesKept`; `TrailsHold` |
| `incremental` | call sequences of three calls of `solve` on 4 variables, six ways to set `chrono`, `chronoalways`, `ilb` and `ilbassumptions` | `AnswersRight`; `CoreFails`; `SearchHolds` |
| `sim_probe`, `proof_deletions`, `elim_backward`, `incremental_late` | see below | one each, violated |

`AnswersRight`, `CoreFails`, `ModelsExtend`, `Sound`, `LearnedEntailed` and `KeepsFormula`
compare with all assignments of the variables, that is with a reference definition of
entailment that shares nothing with the model of the code.

Deadlock is checked in the inprocessing runs, where the user can always go on to
the end of the call sequence and then stutters. Elsewhere `CHECK_DEADLOCK FALSE` is set,
for the program ends there: after an answer, the refutation, or the last input.

### Bounds

- `Var`, `MaxVar`: 3 to 8. Strengthening, a UIP with two reasons, blocks that shrink, a
  restart that reuses levels, gates of three inputs all fit in 3 to 5; the formulas of
  `simulation` were found by search as small ones on which the rare branches are taken.
- `most` lemmas (`simulation`, `sim_probe`), 2 to 4: copies drift, if they do, after one
  lemma and show with the next. `EagerSubsumeLim` 1 for 20 puts the edge of the window inside the clause
  list.
- `MaxCollections` 2: the second meets what the first has left. `MaxAddr`,
  `MaxClauses` (`Collect`) bound the learned clauses (with an address for a copy of each), and
  `Target` is the fraction that is reduced.
- `MaxBumped` 7 (`queue`): every variable is moved twice after it was enqueued.
- `MaxConflicts`, `MaxRephases` (`search`): past one full Luby block of six intervals, two
  schedules, a heap that is rescaled twice. `Word` 256 stands for 2^64: the
  counters stay far below.
- `MaxId` (`proof`), `MaxDeletions`: enough for each clause to be learned, strengthened
  and deleted; the builder's trail is undone by the first deletion and the chain of the
  empty clause by the third.
- `most`, `rounds`, `late` (`inprocessing`): clauses at one time, rounds, clauses that come
  after the first `solve`. `Elim*Lim`, `Block*Lim`, `Cover*Lim`, `TernaryOccLim`,
  `SubsumeClsLim` are the options of the code, set so that clauses lie on both sides of them.
- `MaxFlips` 1: `flip` is tried once after each model.

### Fairness

The programs are sequential, so a turn that can be taken is taken. `Cdcl` has weak
fairness of `Analyze`, the loop of `analyze`: nothing else is promised there, for it may
be interrupted by limits between conflicts. `MCSimulation` has weak fairness of the
turns of both loops while a lemma is taken up or a word is left; nobody promises that
the core file has another lemma. Its `FairNext` is the next-state
relation of `Simulation`, action by action, with a bit that each turn flips; fairness is
that of the flip, in place of the ENABLED of the turns, with the same meaning. The other runs check safety only: that
search as a whole ends is the matter of restart intervals and of measures that grow
with every learned clause, and small instances show nothing of it.

### Refinements

- `Vmtf` implements `DecisionOrder` (`DecidesLatest`, also proved): the linked list with
  stamps and cached position is a line of variables of which the latest unassigned is
  decided. `before` is the order of the stamps, `assigned` the trail, `levels` the
  decisions; following a link is a stuttering step.
- `Checker` implements `ProofChecking` (`CheckerPromises`): hash table, lazy deletion, watches
  and saved literals are a multiset of clauses; a derived clause is accepted if unit
  propagation refutes its negation, and a deletion if the clause was added.

## Where code and text disagree

Four runs are expected to be violated; PROJECT.json quotes what is violated.

- `sim_probe`: `is_literal_empowering2_revert` asserts that the literal it probes is
  undefined. Its second caller can pass a false one: with the clauses (-1 2 5) (-1 -2 5)
  (1 -3 5) (3 4 1), deciding -5, -4, -3. The default build goes on and is right to take
  the literal for absorbed.
- `proof_deletions`: the copies are deleted from the proof but never added.
- `elim_backward`: the flag `satisfied` outlives the clause it was set for.
- `incremental_late`: an assumption that a late clause falsifies out of order is skipped.

What else was met while modelling, and lies outside what the passing runs assume:

- With the option `reverse`, bumping (`analyze.cpp:158`) sorts by stamps the other way; the
  queue is still one, only the order differs. Both are in the runs.
- The order of the heap is checked (`heap.hpp:106`) after rescaling with scores that
  rounding made equal.
- Copies of original clauses take ids that originals parsed later take again
  (`clause.cpp:566`); `ClausesInProof` shows that first uses stay different.
- If the formula has a clause twice, or shortening makes two equal, the proof may lack one
  that is used: the id of the first one's copy is that of the second, which replaced its
  original line, and deleting the copy deletes that line. So `UsedClausesInProof` speaks
  of clauses only until a copy has the id and the literals of another one (`confused`).
- The writer's strengthened copies have no LRAT chain (`analyze.cpp:1069`).
- Gates (`gates.cpp:585`) are looked for in clauses with units that wait for propagation.
- `extend.cpp:11` shifts the id of a clause by 32 as a 32 bit number.
- The inputs of `incremental` add all clauses of a round before its assumptions, which
  keeps away from `incremental_late`.
- With `ilb`, a clause with a true watch of a higher level and a false watch of a lower one
  can miss a unit after backtracking. No falsified clause goes unnoticed (`SearchHolds`).

## What is proved

`CdclProofs` proves for every set of variables and every formula, from `VarAssumption`
(variables are positive numbers) and `InputsAssumption` (an input is a set of variables
and a sequence of clauses):

- `TypeCorrect`: `TypeOK` always holds. It is not inductive alone: that `Jump` and
  `Unwound` give levels of the trail needs `ShapeOK`, which says how the control stack
  cuts the trail into levels.
- `Soundness`: `Sound` always holds. `SoundInv` adds that the reason of each literal is
  satisfied by every model of the formula, also when the reason is no longer in `db`
  because it was strengthened or subsumed. Each step of `Analyze` is one resolution.
- `UnsatSoundness`: `UnsatCorrect`, from the same invariant.

Further, from the same assumptions:

- `TrailJustified`: `TrailReasons` always holds. `TrailInv` adds that no variable is
  assigned twice and that, when the decision of a level was made, no clause kept now was
  unit or conflicting (`Clean`): `Decide` waits for `Propagated`, and a clause added later
  has two literals that were not yet false on each level that is left. Neither part is in
  the property, and without `Clean` the next two results fail.
- `AnalysisOnTrail`: `ResolventFalsified` always holds. By `Clean` a conflict has a
  literal on the conflict level, each resolution leaves the other open ones, and a
  decision is the earliest open literal of its level, so its reason is never asked for.
- `NothingSubsumed`: `NewClauseNotSubsumed`. A kept clause inside the driving clause would
  have had all literals but one false below the conflict level, against `Clean`.
- `FormulaKept`: `KeepsFormula` always holds. What OTFS replaces is covered by the
  strengthened clause (which is irredundant when one of the two was), the root units only
  grow, and the rest of what is dropped is redundant.

`VmtfProofs` proves for every number of variables and both settings of `reverse`, from
`VmtfAssumption` (the bounds are natural numbers, `Reverses` a set of Booleans):

- `QueueIsKept`: `QueueKept` always holds. It is inductive as it stands, and each part is
  there for another: that the neighbours of a variable have the next stamps
  (`QueueOrdered`) needs the bound `bumped` on stamps, `SearchFinds` needs that behind
  `queue.unassigned` all is assigned (`UnassignedBound`), and that one survives a bump
  only because the variables of a conflict stay assigned until the back jump
  (`BumpsAssigned`) and because the trail tells which are above the root (`TrailOrdered`).
  `UnassignedBound` itself is subtle: `queue.bumped` may fall behind the stamp of the
  variable it was copied from, but only while that one is above the root level.
- `RestartsReuse`: `RestartsReuseBest`.
- `QueueIsLine`: `DecidesLatest`, the refinement, action by action. To see that some
  variable has the smallest or largest stamp needs induction; it is replaced by a minimal
  element of a set of natural numbers (`SmallestNumber`).

`PhasesProofs` proves for every number of variables, every set of formulas without the
empty clause and every set of options, from `PhasesAssumption` and `MaxVarAssumption`:

- `PhasesInvariant`: `PhasesInv` always holds. Its parts are that the trail is one and the
  control stack cuts it (`TypeOK`, `TrailOrdered`, `RootSize`); that the saved phases agree
  with the trail above the root (`PhasesSaved`: rephasing overwrites them, but goes to the
  root first, and no variable is assigned twice); and that the prefixes below each
  decision and below `no_conflict_until` falsify no clause (`PrefixesFree`: a decision
  waits until nothing is falsified).
- `TargetIsReplayed`: `TargetReplays`. What was copied into the target and best phases was
  a conflict-free prefix with the root literals of that time. The root literals only grow,
  which is why the copy is compared with the trail of its own time and not the present one.

`ProofLogProofs` proves for every formula, from `ProofLogAssumption` (a sequence of sets of
literals):

- `ProofHasClauses`: `ClausesInProof` always holds. The deletion of a copy, which was never
  added, is harmless only because of all five parts together: what a deletion can take has
  the literals of the pair that is marked or strengthened (`CopiesAgree`), the clauses in
  use have ids of their own, none of them one to come (`FirstIdsUnique`), a binary clause
  is not deleted while it propagates, and a copy with the id and the literals of another clause in
  use has been noticed (`Confusable => confused`, the part that `LogInv` adds). That no irredundant clause
  is lost needs that a copy has the flags of its original, as one speaks for both.

`ScoresProofs` proves for any number of variables, any limit of scores and any factor by
which the increment grows, from `ScoresAssumption` (they are natural numbers, and the limit
is above all of `MaxVar`, `Factor * One` and `2 * One`):

- `HeapIsKept`: `HeapKept` always holds, in particular no variable that could be decided
  is missing on the heap. `HeapInvariant` adds that variables not added yet have the score
  zero (so `rescale_variable_scores`, which looks at the others only, divides by the
  largest), that levels start on the trail in ascending order, and that nothing is left to
  bump outside of bumping.
- `BestIsDecided`: `BestDecided`. The front of a heap in order is the best of all of it.

What the loops of the heap do is proved by induction: `up` and `down` each restore
the order when one element is too good or too bad for its place (`UpWorks`, `DownWorks`),
and `update`, `push_back` and `pop_front` follow. Theorems with an operator as
parameter cannot be used, so `Recursion` states induction with sets in place of operators:
a set of arguments that has each one for which it has all of lower rank has all of them
(`RankInduction`); and a function that stops or goes on with an argument of lower rank
exists (`TailRecursion`), so a recursive function is what its definition says. All
follows from the least element of a set of natural numbers.

`CollectProofs` proves for any formula, any size of the store and any number of collections,
from `CollectAssumption` (an original clause of the store has two literals or more, and
there are addresses for the copies):

- `PointersAreKept`: `PointersHold` always holds, types and pointers. `IInv` says of each
  step of a collection which addresses are in use. Until the copies are made all pointers
  lead into the clause list (`AtRest`). Then there are two stores (`Relocating`): the list,
  and what its clauses that stay are moved to, which overlap only where nothing is moved
  and are in one-to-one relation; watches and reasons lead into the one or the other,
  depending on the step, until the first is deleted. A protected reason stays because its
  flag is set exactly for the reasons above the root level. During search the invariant
  needs that no variable is on the trail twice and that levels rise, as a back jump must
  drop the reasons it takes off the trail.

The propagation of a literal is proved by induction over its watches (`VisitsAre`), and
what is filtered from a sequence by counting ranks (`FilteredIs`).

`WatchProofs` adds to it what propagation relies on, from the same assumption, which also
says that an original clause has no literal twice (`add_new_original_clause` removes
duplicates):

- `PropagationIsKept`: `PropagationHolds` always holds, that is watches are complete
  (`WatchesExact`), reasons force their literals (`ReasonsHold`) and nothing is left to
  propagate at the end of the trail (`PropagationComplete`). It is not inductive. `PInv`
  adds to the invariant of the pointers:
  - `AllGuarded`: a watched literal that is false and propagated has a true literal in the
    same clause, not above it in level. This is what a back jump needs: it either takes the
    false literal off the trail or leaves the true one. The blocking literal need not
    be a watched one, so it says "in the clause". While there is a conflict it holds up
    to the start of the last level only, and analysis jumps below that (`LevelsSeen`).
  - `AllFit` and `AllBlock`: each clause that is no garbage is watched by its first two
    literals, once each, with its size and another literal of it. After the watches are
    redirected they fit the copies (`CopiesAlike`) and not the old clauses.
  - `Forced`: a reason above the root level is no garbage, holds its literal, and its other
    literals are false at earlier places.
  - `GarbageIsLong`: a clause that is garbage during search has three literals or more, as
    binary clauses are propagated without a look at the flag.

  Within a propagation `Turned` says, by induction over the watches of the literal, which
  watches were visited, kept and moved so far; `RewatchTurn` is the step that swaps two
  literals of a clause. That no clause is lost (`ClausesHold`) counts clauses in bags and
  folds over them; it stays with TLC.

Everything else is model-checked only. Liveness under fairness is out of the prover's
reach, and so are the modules with `RECURSIVE` operators (`Engine`, `Analysis`, `Simulation`,
`Chrono`, those of inprocessing); what recursive functions compute is proved where
`Recursion` applies.

## What is not modelled, and why

- External propagators (`external_propagate.cpp`), lucky phases, local search,
  lookahead: not reached by the command lines of the repository.
- Parsing, files, options, signals, logging, statistics, the arena: input and output, or
  bookkeeping without state that search depends on.
- The model based tester (`mobical.cpp`) is itself a test.
- `drat-trim` is outside the repository; `Simulation` assumes what it guarantees.
