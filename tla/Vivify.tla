------------------------------- MODULE Vivify -------------------------------
(***************************************************************************)
(* Vivification (vivify.cpp): the literals of a candidate clause are       *)
(* assumed false one after the other, and propagated without the           *)
(* candidate.  It is subsumed if a literal becomes true or propagation     *)
(* fails, and strengthened if literals become false; the last literal is   *)
(* also tried true ('instantiation').  The trail is kept from one          *)
(* candidate to the next.  The other form of instantiation                 *)
(* (instantiate.cpp) assumes all literals of a clause at once.             *)
(***************************************************************************)
EXTENDS Inprocess

VARIABLES
  phase,     \* off, pick, decide or instantiate
  pass, order, schedule,
  candidate, \* the clause ignored by propagation
  trail,     \* literals above the root level: lit, level and reason or 0
  skipped    \* clauses that may not have been propagated over this trail

vivifyVars == <<phase, pass, order, schedule, candidate, trail, skipped>>

VivifyInit ==
  /\ phase = "off" /\ pass = "none" /\ order = <<>> /\ schedule = {}
  /\ candidate = 0 /\ trail = <<>> /\ skipped = {}

-----------------------------------------------------------------------------
Level(t) == IF t = <<>> THEN 0 ELSE Last(t).level
Upto(t, n) == SelectSeq(t, LAMBDA e : e.level <= n)
TrueLits(t) == units \cup {e.lit : e \in ToSet(t)}
TVal(t, l) == IF l \in TrueLits(t) THEN 1 ELSE IF -l \in TrueLits(t) THEN -1 ELSE 0
Position(t, l) == CHOOSE n \in DOMAIN t : Idx(t[n].lit) = Idx(l)
VarOf(t, l) == t[Position(t, l)]
Above(t, l) == \E e \in ToSet(t) : Idx(e.lit) = Idx(l)
HasReason(t, l) == Above(t, l) /\ VarOf(t, l).reason # 0

\* connect_watches (!redundant_mode)
Watched == IF pass = "irredundant" THEN irredundant ELSE Live(State)
TrailFalsified(id) == \A l \in LitsOf(State, id) : TVal(trail, l) < 0
TrailForces(id, l) ==
  l \in LitsOf(State, id) /\ TVal(trail, l) = 0 /\ \A k \in LitsOf(State, id) \ {l} : TVal(trail, k) < 0
Missed(S) == \E id \in S : TrailFalsified(id) \/ \E l \in LitsOf(State, id) : TrailForces(id, l)

Sorted(id) == SelectSeq(order, LAMBDA l : l \in LitsOf(State, id) /\ Val(State, l) = 0)

Vivifying(t, p) ==
  /\ trail' = t /\ phase' = p /\ candidate' = (IF p = "pick" THEN 0 ELSE candidate)
  /\ UNCHANGED <<pass, order, schedule, skipped>>

-----------------------------------------------------------------------------
\* consider_to_vivify_clause; of identical clauses only the first is kept.  The sort
\* puts a clause before its proper prefixes, so no other clause is flushed.
Considered(p) == {id \in IF p = "redundant" THEN redundant ELSE irredundant : Len(lits[id]) > 2}
FlushedSchedule(clauses) ==
  {c \in clauses : ~\E d \in clauses : d < c /\ LitsOf(State, d) = LitsOf(State, c)}

\* vivify_round up to the loop.
VivifyBegin(p, ord) ==
  /\ mode = "search" /\ On("vivify") /\ phase = "off" /\ rounds < input.rounds
  /\ pass' = p /\ order' = ord
  /\ schedule' = FlushedSchedule(Considered(p))
  /\ \E st \in {FoldLeft(MarkGarbage, State, SetToSeq(Considered(p) \ FlushedSchedule(Considered(p))))} :
     \E watched \in {{LitsOf(st, id) : id \in IF p = "irredundant" THEN st.irr ELSE Live(st)}} :
     \E U \in {UnitClosure(watched, units)} :
       OnFormula([st EXCEPT !.units = U, !.unsat = \E C \in watched : Negated(C) \subseteq U])
  /\ phase' = "pick" /\ mode' = "vivify" /\ rounds' = rounds + 1
  /\ UNCHANGED <<input, todo, candidate, trail, skipped>>

\* Without the level in which the candidate is a reason.
BeforeForced(t, id) ==
  LET forced == {e \in ToSet(t) : e.reason = id}
  IN IF forced = {} THEN t ELSE Upto(t, (CHOOSE e \in forced : TRUE).level - 1)

\* Decisions are reused as long as they are the literals of the candidate.
Reused(t, sorted) ==
  LET decisions == SelectSeq(t, LAMBDA e : e.reason = 0)
      differ == {n \in DOMAIN decisions \cap DOMAIN sorted : decisions[n].lit # -sorted[n]}
  IN IF differ = {} THEN t ELSE Upto(t, Min(differ) - 1)

VivifyPick(id) ==
  /\ phase = "pick" /\ ~unsat /\ id \in schedule /\ schedule' = schedule \ {id}
  /\ IF HasTrue(State, id, 0)
     THEN OnFormula(MarkGarbage(State, id)) /\ UNCHANGED <<phase, candidate, trail, skipped>>
     ELSE /\ candidate' = id /\ skipped' = skipped \cup {id} /\ phase' = "decide"
          /\ trail' = Reused(BeforeForced(trail, id), Sorted(id)) /\ UNCHANGED extensionVars
  /\ Goto(mode) /\ UNCHANGED <<pass, order>>

\* vivify_propagate: binary clauses first.
VivifyPropagate(id, l) ==
  /\ phase \in {"decide", "instantiate"} /\ id \in Watched \ {candidate} /\ TrailForces(id, l)
  /\ Len(lits[id]) = 2 \/ \A other \in Watched \ skipped : Len(lits[other]) = 2 => ~Missed({other})
  /\ trail' = Append(trail, [lit |-> l, level |-> Level(trail), reason |-> id])
  /\ UNCHANGED <<vars, phase, pass, order, schedule, candidate, skipped>>

-----------------------------------------------------------------------------
\* vivify_strengthen goes back until two literals of the new clause can be
\* watched.
WatchLevel(t, keep) ==
  LET open == {l \in keep : TVal(t, l) >= 0}
      places == {Position(t, l) : l \in keep \ open}
      first == Max(places)
      second == Max(places \ {first})
  IN CASE Cardinality(open) >= 2 -> t
       [] Cardinality(open) = 1 ->
            IF \E l \in open : TVal(t, l) > 0 /\ VarOf(t, l).level <= t[first].level
            THEN t ELSE Upto(t, t[first].level - 1)
       [] open = {} -> Upto(t, t[second].level - 1)

\* vivify_strengthen: to a unit, which is propagated, or to a new clause.
VivifyStrengthen(keep, t) ==
  LET c == candidate
      kept == SelectSeq(lits[c], LAMBDA l : l \in keep)
      new == Len(lits) + 1
  IN IF Len(kept) = 1
     THEN /\ \E U \in {UnitClosure({LitsOf(State, id) : id \in Watched}, units \cup keep)} :
               OnFormula(MarkGarbage([State EXCEPT !.units = U,
                 !.unsat = \E id \in Watched : Negated(LitsOf(State, id)) \subseteq U], c))
          /\ Vivifying(<<>>, "pick")
     ELSE /\ OnFormula(MarkGarbage([State EXCEPT !.lits = Append(@, kept),
                 !.irr = @ \cup (IF c \in irredundant THEN {new} ELSE {}),
                 !.red = @ \cup (IF c \in redundant THEN {new} ELSE {})], c))
          /\ Vivifying(WatchLevel(t, keep), "pick")

\* The literals vivify_analyze_redundant sees from the clause 'start'.
Seen(start, true) ==
  FoldRight(LAMBDA e, S : IF -e.lit \in S /\ e.reason # 0 THEN S \cup (LitsOf(State, e.reason) \ {e.lit}) ELSE S,
            trail, LitsOf(State, start) \ {true})
Reasons(S) == {e.reason : e \in {f \in ToSet(trail) : -f.lit \in S /\ f.reason # 0}}

\* Mutant: the literals that are not decisions are kept instead.
SeenDecisionsSwapped(S, true) == {l \in LitsOf(State, candidate) : HasReason(trail, l) \/ l = true}

\* vivify_post_process_analysis
SeenDecisions(S, true) ==
  {l \in LitsOf(State, candidate) :
     l = true \/ (l \in S /\ TVal(trail, l) < 0 /\ Above(trail, l) /\ ~HasReason(trail, l))}
AllDecisions(S, true) ==
  \A l \in LitsOf(State, candidate) \ {true} : Val(State, l) < 0 \/ l \in SeenDecisions(S, true)

\* The candidate is implied: 'start' is the reason of its literal 'true', or
\* falsified if 'true' is 0.
Subsumed(start, true, t) ==
  \E S \in {Seen(start, true)} :
    IF pass = "irredundant" \/ \A id \in Reasons(S) \cup {start} : Len(lits[id]) = 2
    THEN OnFormula(MarkGarbage(State, candidate)) /\ Vivifying(t, "pick")
    ELSE IF AllDecisions(S, true) \/ SeenDecisions(S, true) = {}
    THEN UNCHANGED extensionVars /\ Vivifying(t, "pick")
    ELSE VivifyStrengthen(SeenDecisions(S, true), t)

NoneMissed == ~Missed(Watched \ skipped)
FirstOpen(sorted) ==
  LET open == {n \in DOMAIN sorted : TVal(trail, sorted[n]) = 0}
  IN IF open = {} THEN Len(sorted) + 1 ELSE Min(open)
TrueOnes(sorted) ==
  {n \in 1 .. FirstOpen(sorted) - 1 : TVal(trail, sorted[n]) > 0 /\ HasReason(trail, sorted[n])}
FalseImplied == {l \in LitsOf(State, candidate) : TVal(trail, l) < 0 /\ HasReason(trail, l)}
KeptLits(remove, t) ==
  {l \in LitsOf(State, candidate) \ {remove} : Val(State, l) = 0 /\ ~HasReason(t, l)}

Unchanged == UNCHANGED extensionVars /\ Vivifying(trail, "pick")
FinishCandidate == IF FalseImplied = {} THEN Unchanged ELSE VivifyStrengthen(KeptLits(0, trail), trail)

\* The loop over the sorted literals, after propagation.
VivifyNextLiteral ==
  /\ phase = "decide" /\ NoneMissed
  /\ \E sorted \in {Sorted(candidate)} :
     \E n \in {FirstOpen(sorted)} :
     \E trues \in {TrueOnes(sorted)} :
       IF trues # {}
       THEN \E true \in {sorted[Min(trues)]} :
              Subsumed(VarOf(trail, true).reason, true,
                       IF pass = "redundant" THEN Upto(trail, Level(trail) - 1) ELSE trail)
       ELSE IF n <= Len(sorted)
       THEN /\ Vivifying(Append(trail, [lit |-> -sorted[n], level |-> Level(trail) + 1, reason |-> 0]), phase)
            /\ UNCHANGED extensionVars
       ELSE IF "vivifyinst" \in input.techniques /\ Last(sorted) \notin FalseImplied
       THEN /\ Vivifying(Append(Upto(trail, Level(trail) - 1),
                                [lit |-> Last(sorted), level |-> Level(trail), reason |-> 0]), "instantiate")
            /\ UNCHANGED extensionVars
       ELSE FinishCandidate
  /\ Goto(mode)

VivifyConflict(id) ==
  /\ phase \in {"decide", "instantiate"} /\ id \in Watched \ {candidate} /\ TrailFalsified(id)
  /\ IF phase = "decide" THEN Subsumed(id, 0, Upto(trail, Level(trail) - 1))
     ELSE \E t \in {Upto(trail, Level(trail) - 1)} : VivifyStrengthen(KeptLits(Last(Sorted(candidate)), t), t)
  /\ Goto(mode)

InstantiationFailed == phase = "instantiate" /\ NoneMissed /\ FinishCandidate /\ Goto(mode)

\* All clauses are watched again, and all literals propagated.
VivifyEnd ==
  /\ phase = "pick"
  /\ Propagate(State) /\ UNCHANGED <<original, tainted, frozen>> /\ Goto("search")
  /\ phase' = "off" /\ pass' = "none" /\ order' = <<>> /\ schedule' = {}
  /\ candidate' = 0 /\ trail' = <<>> /\ skipped' = {}

-----------------------------------------------------------------------------
\* instantiate_candidate: the literal true and the others false, all at once.
Instantiate(id, l) ==
  /\ mode = "between" /\ On("instantiate") /\ id \in irredundant /\ l \in LitsOf(State, id)
  /\ ~HasTrue(State, id, 0)
  /\ \E open \in {{k \in LitsOf(State, id) : Val(State, k) = 0}} :
     /\ Cardinality(open) >= 3 /\ \A k \in open : Active(State, k)
     /\ \E U \in {UnitClosure({LitsOf(State, c) : c \in Live(State)}, units \cup {l} \cup Negated(open \ {l}))} :
          {c \in Live(State) : Negated(LitsOf(State, c)) \subseteq U} # {}
  /\ OnFormula([State EXCEPT !.lits[id] = Without(@, l)])
  /\ Goto(mode) /\ UNCHANGED vivifyVars

Vivifies ==
  \/ \E p \in {"irredundant", "redundant"} : \E ord \in input.orders : VivifyBegin(p, ord)
  \/ \E id \in schedule : VivifyPick(id)
  \/ \E id \in Live(State) : VivifyConflict(id) \/ \E l \in LitsOf(State, id) : VivifyPropagate(id, l)
  \/ VivifyNextLiteral \/ InstantiationFailed \/ VivifyEnd
  \/ \E id \in irredundant : \E l \in LitsOf(State, id) : Instantiate(id, l)

-----------------------------------------------------------------------------
\* 'assert (val (lit) == 0)': the literal instantiated is open once the last
\* decision is undone, however many decisions were reused.
TrailConsistent == \A l \in TrueLits(trail) : unsat \/ -l \notin TrueLits(trail)

\* Between two candidates no clause but former candidates is unit or falsified
\* under the trail that is kept: the watches of the new clauses are right.
NothingMissed == phase = "pick" /\ ~unsat => NoneMissed
=============================================================================
