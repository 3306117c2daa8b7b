------------------------------ MODULE MCSearch ------------------------------
(***************************************************************************)
(* The heap of scores, the phases of decisions, and restarts for TLC.  An  *)
(* execution is one of one part; the other parts do not move.              *)
(***************************************************************************)
EXTENDS Phases

VARIABLES
  part,   \* the part of this execution: "heap", "phases" or "restarts"
  max_var, heapStable, scores, stab, score_inc, heapTrail, heapControl, pc, analyzed,
  u, v, limit, countdown, trigger, ticks, counted, mode, incMode, limMode, limRestart,
  switches, restarts

\* Two formulas; schedules with and without stable phases and local search, and
\* forced phases.
TwoFormulas == {{{1, 2}, {1, -2}, {-1, 3}, {-1, -2, -3}}, {{-1, -2}, {-1, 2}, {1, 3}}}
Opt(forcephase, targ, stabilize, only, walk) ==
  [phase |-> TRUE, forcephase |-> forcephase, target |-> targ, stabilize |-> stabilize,
   stabilizeonly |-> only, walk |-> walk, walknonstable |-> walk]
ThreeOptions == {Opt(FALSE, 2, FALSE, FALSE, FALSE), Opt(FALSE, 1, TRUE, FALSE, TRUE),
                 Opt(TRUE, 1, TRUE, TRUE, FALSE)}
NotTwo == {-2}

\* Rescaling is met after two or three bumps.
Heap == INSTANCE Scores WITH
  One <- 1, Limit <- 3, Factor <- 2,
  stable <- heapStable, trail <- heapTrail, control <- heapControl

\* A short period, with limits that are and are not powers of two.
Doubling == INSTANCE Reluctant WITH
  Period <- 2, Limits <- {0, 1, 3, 4}, StabilizeInt <- 3, StabilizeFactor <- 150,
  StabilizeMaxInt <- 8, StabilizeOnly <- FALSE, RestartInt <- 2, Word <- 256,
  MaxConflicts <- 24,
  conflicts <- counted, stable <- mode, incStabilize <- incMode, limStabilize <- limMode

ASSUME HeuristicsAssumption == Heap!ScoresAssumption /\ Doubling!ReluctantAssumption

heapVars == <<max_var, heapStable, scores, stab, score_inc, heapTrail, heapControl, pc, analyzed>>
restartVars == <<u, v, limit, countdown, trigger, ticks, counted, mode, incMode, limMode,
                 limRestart, switches, restarts>>
searchVars == <<part, vars, heapVars, restartVars>>

\* The parts that are off: the phases stay at the start of a search.
Off == 0
HeapOff == /\ max_var = Off /\ heapStable = Off /\ scores = Off /\ stab = Off
           /\ score_inc = Off /\ heapTrail = Off /\ heapControl = Off /\ pc = "off"
           /\ analyzed = Off
PhasesOff ==
  /\ Init
  /\ formula = CHOOSE F \in Inputs : TRUE
  /\ opts = CHOOSE o \in Options : TRUE
RestartsOff == /\ u = Off /\ v = Off /\ limit = Off /\ countdown = Off /\ trigger = Off
               /\ ticks = Off /\ counted = Off /\ mode = Off /\ incMode = Off
               /\ limMode = Off /\ limRestart = Off /\ switches = Off /\ restarts = Off

SearchInit ==
  \/ part = "heap" /\ Heap!Init /\ PhasesOff /\ RestartsOff
  \/ part = "phases" /\ Init /\ HeapOff /\ RestartsOff
  \/ part = "restarts" /\ Doubling!Init /\ HeapOff /\ PhasesOff

SearchNext ==
  /\ UNCHANGED part
  /\ \/ part = "heap" /\ Heap!Next /\ UNCHANGED <<vars, restartVars>>
     \/ part = "phases" /\ Next /\ UNCHANGED <<heapVars, restartVars>>
     \/ part = "restarts" /\ Doubling!Next /\ UNCHANGED <<vars, heapVars>>

SearchSpec == SearchInit /\ [][SearchNext]_searchVars

-----------------------------------------------------------------------------
\* Every decision of stable mode is an unassigned variable with the best score,
\* and a restart keeps only decisions at least as good as what it leaves
\* unassigned; the heap stays one (decide.cpp, heap.hpp).
BestDecided ==
  [][part = "heap" => Heap!BestDecided]_searchVars

\* So many conflicts of stable phases are counted before each restart as the
\* Luby sequence says, nothing is lost of a countdown that unstable phases
\* interrupt, and the phases grow geometrically (reluctant.hpp, restart.cpp).
RestartsScheduled ==
  part = "restarts" =>
    Doubling!IntervalsAreLuby /\ Doubling!CountdownMatches /\ Doubling!PhasesGrow
=============================================================================
