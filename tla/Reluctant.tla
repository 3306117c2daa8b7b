----------------------------- MODULE Reluctant -----------------------------
(***************************************************************************)
(* Restarts: the geometric alternation of stable and unstable phases       *)
(* (stabilizing in restart.cpp) and, in stable phases, reluctant doubling  *)
(* (reluctant.hpp), which counts conflicts.  In unstable phases averages   *)
(* of floating point numbers decide, and are left open.                    *)
(***************************************************************************)
EXTENDS Integers, Sequences, FiniteSets, FiniteSetsExt

CONSTANTS
  Period, Limits,     \* opts.reluctant; values of opts.reluctantmax, 0 for none
  StabilizeInt, StabilizeFactor, StabilizeMaxInt, StabilizeOnly,
  RestartInt,         \* opts.restartint
  Word,               \* 2^64 in the code
  MaxConflicts        \* bound of the instance

ReluctantAssumption ==
  /\ Period \in Nat /\ Limits \subseteq Nat /\ StabilizeInt \in Nat \ {0}
  /\ StabilizeFactor \in Nat /\ StabilizeFactor > 100 /\ StabilizeMaxInt \in Nat \ {0}
  /\ StabilizeOnly \in BOOLEAN /\ RestartInt \in Nat /\ Word \in Nat /\ MaxConflicts \in Nat

VARIABLES
  u, v, limit, countdown, trigger, \* class Reluctant
  ticks,                           \* ticks counted since the last trigger
  conflicts, stable, incStabilize, limStabilize, limRestart,
  switches, \* at which numbers of conflicts the phase changed
  restarts  \* numbers of conflicts at restarts in stable phases

reluctantVars == <<u, v, limit, countdown, trigger, ticks>>
vars == <<reluctantVars, conflicts, stable, incStabilize, limStabilize, limRestart, switches, restarts>>

\* enable and init_search_limits
Init ==
  /\ u = 1 /\ v = 1 /\ limit \in Limits /\ countdown = Period /\ trigger = FALSE
  /\ ticks = 0
  /\ conflicts = 0 /\ stable = StabilizeOnly
  /\ incStabilize = StabilizeInt /\ limStabilize = StabilizeInt /\ limRestart = RestartInt
  /\ switches = <<>> /\ restarts = <<>>

-----------------------------------------------------------------------------
\* u & -u in two's complement: the lowest bit that is set.
LowestBit(n) == CHOOSE b \in {2 ^ k : k \in 0 .. 7} : n % b = 0 /\ (n \div b) % 2 = 1

\* Mutant: the words are advanced before the test.
AdvanceLate(p) ==
  IF LowestBit(p.u + 1) = p.v THEN [u |-> p.u + 1, v |-> 1] ELSE [u |-> p.u, v |-> (2 * p.v) % Word]

Advance(p) ==
  IF LowestBit(p.u) = p.v THEN [u |-> p.u + 1, v |-> 1] ELSE [u |-> p.u, v |-> (2 * p.v) % Word]

Ticking(t) == ~t

\* tick, called by analyze for each conflict of a stable phase
Tick ==
  IF Period = 0 \/ ~Ticking(trigger) THEN UNCHANGED reluctantVars
  ELSE IF countdown > 1 THEN /\ countdown' = countdown - 1 /\ ticks' = ticks + 1
                             /\ UNCHANGED <<u, v, limit, trigger>>
  ELSE LET p == Advance([u |-> u, v |-> v])
           over == limit > 0 /\ p.v >= limit
       IN /\ u' = IF over THEN 1 ELSE p.u
          /\ v' = IF over THEN 1 ELSE p.v
          /\ countdown' = v' * Period /\ trigger' = TRUE /\ ticks' = ticks + 1
          /\ UNCHANGED limit

Conflict ==
  /\ conflicts < MaxConflicts /\ conflicts' = conflicts + 1
  /\ IF stable THEN Tick ELSE UNCHANGED reluctantVars
  /\ UNCHANGED <<stable, incStabilize, limStabilize, limRestart, switches, restarts>>

NewLimit(c, lim, inc) == IF c + inc <= c THEN c + 1 ELSE c + inc

\* stabilizing, called by restarting
Stabilizing ==
  /\ conflicts >= limStabilize /\ ~(stable /\ StabilizeOnly)
  /\ stable' = ~stable
  /\ LET inc == Min({(incStabilize * StabilizeFactor) \div 100, StabilizeMaxInt})
     IN incStabilize' = inc /\ limStabilize' = NewLimit(conflicts, limStabilize, inc)
  /\ switches' = Append(switches, conflicts)
  /\ UNCHANGED <<reluctantVars, conflicts, limRestart, restarts>>

\* restarting and restart: the trigger is taken down.
Restart ==
  /\ conflicts < limStabilize \/ (stable /\ StabilizeOnly)
  /\ \/ stable /\ trigger /\ trigger' = FALSE /\ ticks' = 0 /\ restarts' = Append(restarts, ticks)
     \/ ~stable /\ conflicts > limRestart /\ UNCHANGED <<trigger, ticks, restarts>>
  /\ limRestart' = conflicts + RestartInt
  /\ UNCHANGED <<u, v, limit, countdown, conflicts, stable, incStabilize, limStabilize, switches>>

\* restarting is asked in each turn of the loop that has no conflict, so that
\* a due switch or restart comes before the next conflict or after it.
Next == Conflict \/ Stabilizing \/ Restart

Spec == Init /\ [][Next]_vars

-----------------------------------------------------------------------------
\* The sequence of Luby, Sinclair and Zuckerman: 1 1 2 1 1 2 4 1 ...
Luby[n \in Nat \ {0}] ==
  IF \E k \in 1 .. 8 : n = 2 ^ k - 1 THEN (n + 1) \div 2
  ELSE Luby[n - 2 ^ (CHOOSE k \in 0 .. 8 : 2 ^ k - 1 < n /\ n < 2 ^ (k + 1) - 1) + 1]

\* Where the n-th interval is in the sequence, which starts over before an
\* element that reaches the limit.
Place[n \in Nat \ {0}] ==
  IF n = 1 \/ (limit > 0 /\ Luby[Place[n - 1] + 1] >= limit) THEN 1 ELSE Place[n - 1] + 1

\* 'This gives the common Luby sequence with the specified base interval
\* period': so many conflicts of stable phases are counted before each restart
\* of one, however late restarts happen and whatever phases come in between.
IntervalsAreLuby == \A n \in DOMAIN restarts : restarts[n] = Period * Luby[Place[n]]

\* Nothing is lost of a countdown that is interrupted by unstable phases.
CountdownMatches == Period > 0 => countdown + (IF trigger THEN 0 ELSE ticks) = v * Period

Grown[n \in Nat] ==
  IF n = 0 THEN StabilizeInt ELSE Min({(Grown[n - 1] * StabilizeFactor) \div 100, StabilizeMaxInt})

\* Each phase lasts its share of conflicts, which grows geometrically, although
\* the switch to it may come late.
PhasesGrow ==
  \A n \in 1 .. Len(switches) - 1 : switches[n + 1] - switches[n] >= Grown[n]
=============================================================================
