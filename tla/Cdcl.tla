-------------------------------- MODULE Cdcl --------------------------------
(***************************************************************************)
(* The conflict-driven core of both solvers (the sequence writer and the   *)
(* sequence reader), with chrono=0 as the README's command lines set it:   *)
(* search_assign, propagate, analyze with on-the-fly strengthening (OTFS), *)
(* minimisation and shrinking, the learned driving clause, eager           *)
(* subsumption and backtrack.                                              *)
(*                                                                         *)
(* A clause is a set of literals with its 'redundant' flag: watches, the   *)
(* order of literals and the second copy the writer keeps of each clause   *)
(* are the business of module Engine.  Everything this module leaves open  *)
(* (which unit is propagated next, which conflict is found, who decides,   *)
(* which subsumed clauses the bounded scan reaches) is nondeterministic.   *)
(***************************************************************************)
EXTENDS Integers, Sequences

CONSTANTS
  Var,      \* variables, positive integers; the literals are v and -v
  Inputs    \* CNF files: the variables of the header, and the clauses in file
            \* order, each a set of literals

Lit == Var \cup {-v : v \in Var}

ASSUME VarAssumption == Var \subseteq Nat \ {0}
ASSUME InputsAssumption ==
  Inputs \subseteq [vars : SUBSET Var, clauses : Seq(SUBSET Lit)]

VARIABLES
  input,      \* the CNF file of this execution
  added,      \* number of clauses of Formula handed to the solver so far
  db,         \* the live (not garbage) clauses, as records [lits, red]
  trail,      \* assigned literals, as records [lit, level, reason]
  control,    \* control[k]: height of the trail before decision k
  conflict,   \* the falsified clause, or NoClause
  phase,      \* "search", "analyze" or "unsat"
  resolvent,  \* analyze: the literals seen and not resolved away
  first       \* analyze: the next reason is the first one resolved with

vars == <<input, added, db, trail, control, conflict, phase, resolvent, first>>

Clause == [lits : SUBSET Lit, red : BOOLEAN]
NoClause == [lits |-> {}, red |-> TRUE]
Entry == [lit : Lit, level : Nat, reason : Clause]

Formula == input.clauses
Level == Len(control)
TrueLits == {trail[i].lit : i \in DOMAIN trail}
IsFalse(l) == -l \in TrueLits
Declared(l) == {l, -l} \cap input.vars # {}
Undefined(l) == l \notin TrueLits /\ -l \notin TrueLits
RootTrue(l) == \E i \in DOMAIN trail : trail[i].lit = l /\ trail[i].level = 0
RootFalse(l) == RootTrue(-l)
RootUnits == {l \in TrueLits : RootTrue(l)}

\* What 'propagate' has still to do: a clause with one undefined literal and
\* the others false, or with all its literals false.
IsUnit(c, l) == l \in c.lits /\ Undefined(l) /\ \A o \in c.lits \ {l} : IsFalse(o)
IsConflicting(c) == \A o \in c.lits : IsFalse(o)
Propagated == \A c \in db : ~IsConflicting(c) /\ \A l \in c.lits : ~IsUnit(c, l)

Searching == phase = "search" /\ conflict = NoClause

TypeOK ==
  /\ input \in Inputs
  /\ added \in 0 .. Len(Formula)
  /\ db \in SUBSET Clause
  /\ trail \in Seq(Entry)
  /\ control \in Seq(Nat)
  /\ conflict \in Clause
  /\ phase \in {"search", "analyze", "unsat"}
  /\ resolvent \in SUBSET Lit
  /\ first \in BOOLEAN

Init ==
  /\ input \in Inputs
  /\ added = 0 /\ db = {} /\ trail = <<>> /\ control = <<>>
  /\ conflict = NoClause /\ phase = "search" /\ resolvent = {} /\ first = TRUE

\* backtrack (new_level): the trail below the decision of new_level + 1.
Height(k) == IF k < Level THEN control[k + 1] ELSE Len(trail)
Unwound(k) == SubSeq(trail, 1, Height(k))

\* Mutant: the level of an assignment is off by one.
AssignedOffByOne(t, l, k, c) == Append(t, [lit |-> l, level |-> k - 1, reason |-> c])

\* search_assign; on the root level the reason is dropped.
Assigned(t, l, k, c) ==
  Append(t, [lit |-> l, level |-> k, reason |-> IF k = 0 THEN NoClause ELSE c])

-----------------------------------------------------------------------------
\* The next input clause: tautologies and clauses satisfied on the root level
\* are dropped, root-false literals removed; a unit is assigned at once.
AddOriginalClause ==
  /\ Searching /\ Propagated /\ Level = 0 /\ added < Len(Formula)
  /\ added' = added + 1
  /\ LET c == Formula[added + 1]
         rest == {l \in c : ~RootFalse(l)}
         skip == \E l \in c : RootTrue(l) \/ -l \in c
     IN \/ /\ skip
           /\ UNCHANGED <<db, trail, phase>>
        \/ /\ ~skip /\ rest = {}
           /\ phase' = "unsat"
           /\ UNCHANGED <<db, trail>>
        \/ /\ ~skip
           /\ \E l \in rest : rest = {l} /\ trail' = Assigned(trail, l, 0, NoClause)
           /\ UNCHANGED <<db, phase>>
        \/ /\ ~skip /\ \E l, o \in rest : l # o
           /\ db' = db \cup {[lits |-> rest, red |-> FALSE]}
           /\ UNCHANGED <<trail, phase>>
  /\ UNCHANGED <<input, control, conflict, resolvent, first>>

\* Mutant: a decision before propagation is complete.
DecideUnpropagated(l) ==
  /\ Searching /\ added = Len(Formula) /\ Declared(l) /\ Undefined(l)
  /\ control' = Append(control, Len(trail))
  /\ trail' = Append(trail, [lit |-> l, level |-> Level + 1, reason |-> NoClause])
  /\ UNCHANGED <<input, added, db, conflict, phase, resolvent, first>>

\* search_assume_decision, whoever chooses the literal: the VMTF queue, a
\* negated lemma literal of the writer, or a token of the branching sequence.
Decide(l) ==
  /\ Searching /\ added = Len(Formula) /\ Declared(l) /\ Undefined(l)
  /\ Propagated
  /\ control' = Append(control, Len(trail))
  /\ trail' = Append(trail, [lit |-> l, level |-> Level + 1, reason |-> NoClause])
  /\ UNCHANGED <<input, added, db, conflict, phase, resolvent, first>>

\* One assignment of propagate.
PropagateUnit(c, l) ==
  /\ Searching /\ IsUnit(c, l)
  /\ trail' = Assigned(trail, l, Level, c)
  /\ UNCHANGED <<input, added, db, control, conflict, phase, resolvent, first>>

PropagateConflict(c) ==
  /\ Searching /\ IsConflicting(c)
  /\ conflict' = c
  /\ UNCHANGED <<input, added, db, trail, control, phase, resolvent, first>>

\* backtrack called between conflicts; the simulation also uses it to leave a
\* second conflict behind (conflict = 0) without analysing it.
Backtrack(k) ==
  /\ phase = "search" /\ k < Level
  /\ trail' = Unwound(k)
  /\ control' = SubSeq(control, 1, k)
  /\ conflict' = NoClause
  /\ UNCHANGED <<input, added, db, phase, resolvent, first>>

-----------------------------------------------------------------------------
\* Mutant: any conflict is taken for a conflict on the root level.
RootConflictAnyLevel ==
  /\ phase = "search" /\ conflict # NoClause
  /\ phase' = "unsat"
  /\ UNCHANGED <<input, added, db, trail, control, conflict, resolvent, first>>

\* analyze, conflict on the root level: learn_empty_clause.
RootConflict ==
  /\ phase = "search" /\ conflict # NoClause /\ Level = 0
  /\ phase' = "unsat"
  /\ UNCHANGED <<input, added, db, trail, control, conflict, resolvent, first>>

\* analyze_reason (0, conflict): root-false literals are not 'seen'.
StartAnalysis ==
  /\ phase = "search" /\ conflict # NoClause /\ Level > 0
  /\ phase' = "analyze"
  /\ resolvent' = {l \in conflict.lits : ~RootFalse(l)}
  /\ first' = TRUE
  /\ UNCHANGED <<input, added, db, trail, control, conflict>>

\* Trail positions of the resolvent's literals on the conflict level ('open').
Open == {i \in DOMAIN trail : trail[i].level = Level /\ -trail[i].lit \in resolvent}
\* Mutant: the trail is walked from its start.
IsEarliestOpen(i) == i \in Open /\ \A j \in Open : i <= j
IsLatestOpen(i) == i \in Open /\ \A j \in Open : j <= i
OnlyOpen(i) == Open = {i}

\* Mutant: literals on level 1 are dropped like root units.
AntecedentDropsLevelOne(i) ==
  {l \in trail[i].reason.lits \ {trail[i].lit} :
     ~\E j \in DOMAIN trail : trail[j].lit = -l /\ trail[j].level <= 1}

\* The literals analyze_reason marks in the reason of trail entry i: its
\* 'antecedent' without the literal itself and without root units.
Antecedent(i) ==
  {l \in trail[i].reason.lits \ {trail[i].lit} : ~RootFalse(l)}
\* Mutant: the literal resolved on stays open.
ResolvedKeepsPivot(i) == resolvent \cup Antecedent(i)
Resolved(i) == (resolvent \ {-trail[i].lit}) \cup Antecedent(i)

\* antecedent_size > 2 and resolvent_size < antecedent_size: the resolvent is
\* the reason without the uip and without units.
Strengthens(i) ==
  /\ Resolved(i) = Antecedent(i)
  /\ \E l, o \in Antecedent(i) : l # o

\* resolved == 1 and resolvent_size < conflict_size: it also subsumes the
\* conflict.
Subsumes(i) == first /\ Resolved(i) = resolvent \ {-trail[i].lit}

\* The next reason on the conflict level is resolved into the clause.
ResolveReason(i) ==
  /\ phase = "analyze" /\ IsLatestOpen(i) /\ ~OnlyOpen(i)
  /\ trail[i].reason # NoClause
  /\ ~Strengthens(i)
  /\ resolvent' = Resolved(i)
  /\ first' = FALSE
  /\ UNCHANGED <<input, added, db, trail, control, conflict, phase>>

\* Mutant: the jump goes to the level of any of the other literals.
JumpLevelAny(c, forced, k) ==
  /\ k < Level
  /\ IF c = {forced} THEN k = 0
     ELSE \E o \in c \ {forced} : \E i \in DOMAIN trail :
            trail[i].lit = -o /\ trail[i].level = k

\* The conflict-level literal the clause c forces after the jump, and the level
\* it jumps to: the highest level of its other literals (0 for a unit).
AssignedAt(l, k) == \E i \in DOMAIN trail : trail[i].lit = -l /\ trail[i].level = k
JumpLevel(c, forced, k) ==
  /\ k < Level
  /\ \A o \in c \ {forced} : \E j \in 0 .. k : AssignedAt(o, j)
  /\ IF c = {forced} THEN k = 0 ELSE \E o \in c \ {forced} : AssignedAt(o, k)

\* Mutant: a redundant clause that subsumes an irredundant one stays redundant.
StrengthenedStaysRedundant(i) ==
  [lits |-> Antecedent(i), red |-> trail[i].reason.red]

\* on_the_fly_strengthen2 and otfs_subsume_clause: the reason becomes the
\* resolvent, in place, and takes over as the conflict.
StrengthenedClause(i) ==
  [lits |-> Antecedent(i),
   red |-> trail[i].reason.red /\ (Subsumes(i) => conflict.red)]
StrengthenedDb(i) ==
  (db \ ({trail[i].reason} \cup IF Subsumes(i) THEN {conflict} ELSE {}))
    \cup {StrengthenedClause(i)}

\* OTFS with more than one literal left on the conflict level: analysis starts
\* again from the strengthened clause.
StrengthenReason(i) ==
  /\ phase = "analyze" /\ IsLatestOpen(i) /\ ~OnlyOpen(i)
  /\ trail[i].reason # NoClause
  /\ Strengthens(i)
  /\ \E l, o \in Antecedent(i) : l # o /\ AssignedAt(l, Level) /\ AssignedAt(o, Level)
  /\ db' = StrengthenedDb(i)
  /\ conflict' = StrengthenedClause(i)
  /\ resolvent' = Antecedent(i)
  /\ first' = TRUE
  /\ UNCHANGED <<input, added, trail, control, phase>>

\* OTFS with one literal left: the strengthened clause is the driving clause
\* and nothing is learned.
StrengthenAndForce(i, forced, k) ==
  /\ phase = "analyze" /\ IsLatestOpen(i) /\ ~OnlyOpen(i)
  /\ trail[i].reason # NoClause
  /\ Strengthens(i)
  /\ forced \in Antecedent(i) /\ AssignedAt(forced, Level)
  /\ JumpLevel(Antecedent(i), forced, k)
  /\ db' = StrengthenedDb(i)
  /\ trail' = Assigned(Unwound(k), forced, k, StrengthenedClause(i))
  /\ control' = SubSeq(control, 1, k)
  /\ conflict' = NoClause /\ phase' = "search" /\ resolvent' = {} /\ first' = TRUE
  /\ UNCHANGED <<input, added>>

\* shrink_and_minimize_clause, one resolution at a time: a literal below the
\* conflict level is replaced by the other literals of its reason.
MinimizeStep(i, u) ==
  /\ phase = "analyze" /\ OnlyOpen(u)
  /\ i \in DOMAIN trail /\ trail[i].level < Level /\ -trail[i].lit \in resolvent
  /\ trail[i].reason # NoClause
  /\ resolvent' = Resolved(i)
  /\ UNCHANGED <<input, added, db, trail, control, conflict, phase, first>>

\* new_driving_clause, backtrack, search_assign_driving and
\* eagerly_subsume_recently_learned_clauses; 'subsumed' are the learned clauses
\* its bounded scan finds.
Learn(i, k, subsumed) ==
  /\ phase = "analyze" /\ OnlyOpen(i)
  /\ LET uip == trail[i].lit
         driving == [lits |-> resolvent, red |-> TRUE]
     IN /\ JumpLevel(resolvent, -uip, k)
        /\ subsumed \subseteq {d \in db : d.red /\ resolvent \subseteq d.lits}
        /\ IF resolvent = {-uip}
             THEN subsumed = {} /\ UNCHANGED db
             ELSE db' = (db \ subsumed) \cup {driving}
        /\ trail' = Assigned(Unwound(k), -uip, k, driving)
  /\ control' = SubSeq(control, 1, k)
  /\ conflict' = NoClause /\ phase' = "search" /\ resolvent' = {} /\ first' = TRUE
  /\ UNCHANGED <<input, added>>

-----------------------------------------------------------------------------
Analyze ==
  \/ RootConflict
  \/ StartAnalysis
  \/ \E i \in DOMAIN trail : ResolveReason(i) \/ StrengthenReason(i)
  \/ \E i \in DOMAIN trail, forced \in Lit, k \in 0 .. Level :
       StrengthenAndForce(i, forced, k)
  \/ \E i, u \in DOMAIN trail : MinimizeStep(i, u)
  \/ \E i \in DOMAIN trail, k \in 0 .. Level,
         subsumed \in SUBSET {d \in db : d.red} : Learn(i, k, subsumed)

Next ==
  \/ AddOriginalClause
  \/ \E l \in Lit : Decide(l)
  \/ \E c \in db : PropagateConflict(c) \/ \E l \in Lit : PropagateUnit(c, l)
  \/ \E k \in 0 .. Level : Backtrack(k)
  \/ Analyze

Spec == Init /\ [][Next]_vars /\ WF_vars(Analyze)

-----------------------------------------------------------------------------
(***************************************************************************)
(* Properties.  An assignment is the set of its true literals.             *)
(***************************************************************************)
Assignments == {m \in SUBSET Lit : \A v \in Var : v \in m <=> -v \notin m}
Satisfies(m, c) == m \cap c # {}
Models == {m \in Assignments : \A i \in DOMAIN Formula : Satisfies(m, Formula[i])}

\* Every clause the solver keeps, and so every lemma of the proof it writes,
\* follows from the input: learned and minimised clauses, clauses strengthened
\* in place by OTFS, and the literals fixed on the root level.
Sound ==
  \A m \in Models :
    /\ \A c \in db : Satisfies(m, c.lits)
    /\ RootUnits \subseteq m
    /\ conflict # NoClause => Satisfies(m, conflict.lits)
    /\ phase = "analyze" => Satisfies(m, resolvent)

\* The empty clause is learned (learn_empty_clause, res = 20) only for a
\* formula without a model.
UnsatCorrect == phase = "unsat" => Models = {}

\* Redundant clauses may be thrown away (eager subsumption, reduce): the
\* irredundant ones and the root units alone still imply every input clause.
\* otfs_subsume_clause must hand irredundancy on for this.
KeepsFormula ==
  LET kept == {c.lits : c \in {d \in db : ~d.red}} \cup {{l} : l \in RootUnits} IN
  phase # "unsat" =>
    \A m \in Assignments :
      (\A c \in kept : Satisfies(m, c)) => \A i \in 1 .. added : Satisfies(m, Formula[i])

\* A decision opens each level, and the reason of every other literal above the
\* root level is a clause whose other literals were falsified before it.
TrailReasons ==
  /\ \A k \in DOMAIN control : \A i \in DOMAIN trail :
       control[k] < i <=> k <= trail[i].level
  /\ \A i \in DOMAIN trail : LET e == trail[i] IN
       IF e.reason = NoClause
         THEN e.level = 0 \/ control[e.level] = i - 1
         ELSE /\ e.lit \in e.reason.lits
              /\ \A o \in e.reason.lits \ {e.lit} :
                   \E j \in 1 .. i - 1 : trail[j].lit = -o /\ trail[j].level <= e.level

\* Analysis never leaves the falsified part of the trail, never runs out of
\* literals on the conflict level, and dereferences the reason of a literal only
\* where there is one (analyze_reason asserts 'reason').
ResolventFalsified ==
  phase = "analyze" =>
    /\ \A l \in resolvent : \E i \in DOMAIN trail : trail[i].lit = -l /\ trail[i].level > 0
    /\ Open # {}
    /\ \A i \in Open : IsLatestOpen(i) /\ ~OnlyOpen(i) => trail[i].reason # NoClause

\* The clause that drives the search after a conflict, learned or strengthened,
\* is never subsumed by a clause that is kept: it propagates something new.
NewClauseNotSubsumed ==
  [][phase = "analyze" /\ phase' = "search" =>
       \A c \in db' \ db : \A d \in db \cap db' : ~(d.lits \subseteq c.lits)]_vars

\* Once a conflict is found, analysis ends: it drives a literal, or refutes the
\* formula.
ConflictHandled == conflict # NoClause ~> (conflict = NoClause \/ phase = "unsat")
=============================================================================
