----------------------------- MODULE Simulation -----------------------------
(***************************************************************************)
(* The two programs of proof simulation and the file between them.  The    *)
(* writer (write_branching_sequence) reads the core lemmas of a proof, and *)
(* for each literal a lemma does not yet let unit propagation derive it    *)
(* forces conflicts until the lemma is absorbed; every decision, back jump *)
(* and restart it takes is written out.  The reader                        *)
(* (read_branch_sequence) replays the sequence on its own solver: nothing  *)
(* but the written words tells it what the writer did.                     *)
(*                                                                         *)
(* The reader runs after the writer has ended, but it sees the words in    *)
(* order and nothing else, so its state after a prefix is the same if it   *)
(* reads each word as soon as it is written, as it does here.              *)
(***************************************************************************)
EXTENDS Analysis

CONSTANT
  Inputs   \* what is on disk: 'cnf', the clauses of the CNF file, sequences of
           \* literals; 'core', the lemmas the core file may hold; 'most', the
           \* bound on their number

ASSUME SimulationAssumption ==
  \A input \in Inputs : /\ input.cnf \in Seq(Seq(Lit))
                        /\ input.core \subseteq Seq(Lit) \ {<<>>}
                        /\ input.most \in Nat

VARIABLES
  disk,         \* the input of this execution
  given,        \* the lemmas read so far, in order
  writer,       \* the solver of the writer
  lemma,        \* the lemma being absorbed, <<>> between lemmas
  possible,     \* possible_empow_lit_idx from p on
  i,            \* the literal of the lemma being absorbed, 0 if none
  last_level,   \* last_level_DB_status
  wrote,        \* numEmpowerLits > 0
  found_equal,  \* found_equal_lemma
  writer_res,   \* res of write_branching_sequence
  words,        \* written and not yet read
  reader,       \* the solver of the reader
  reader_res    \* res of read_branch_sequence

progress == <<lemma, possible, i, last_level, wrote, found_equal>>
readerVars == <<reader, reader_res>>
vars == <<disk, given, writer, progress, writer_res, words, readerVars>>

\* The words of a sequence file.
Restart == [word |-> "R", arg |-> 0]
BacktrackTo(k) == [word |-> "bt", arg |-> k]
Literal(l) == [word |-> "lit", arg |-> l]

Formula == disk.cnf
Clauses(s) == {ToSet(s[n]) : n \in DOMAIN s}

-----------------------------------------------------------------------------
(***************************************************************************)
(* The core lemmas come from a checker outside the repository (drat-trim): *)
(* each is implied by unit propagation from the formula and the lemmas     *)
(* before it.  The writer does not check that again.                       *)
(***************************************************************************)
RECURSIVE UnitClosure(_, _)
UnitClosure(cnf, true) ==
  LET implied == {l \in Lit \ true : \E c \in cnf :
                    l \in c /\ \A o \in c \ {l} : -o \in true}
  IN IF implied = {} THEN true ELSE UnitClosure(cnf, true \cup implied)

Conflicting(cnf, true) == \E c \in cnf : \A l \in c : -l \in UnitClosure(cnf, true)
Negation(c) == {-l : l \in c}
ImpliedByPropagation(cnf, c) == Conflicting(cnf, Negation(c))

-----------------------------------------------------------------------------
\* Mutant: every probe runs on copy 1.
RECURSIVE ProbeOriginals(_, _, _, _, _)
ProbeOriginals(e, c, lits, idx, k) ==
  IF k = 0 \/ (k # idx /\ Val(e, lits[k]) = 1) THEN [engine |-> e, clean |-> k = 0]
  ELSE IF k = idx \/ Val(e, lits[k]) = -1 THEN ProbeOriginals(e, c, lits, idx, k - 1)
  ELSE LET f == Propagate(SearchAssumeDecision(e, -lits[k]), 1)
       IN IF f.conflict # None
          THEN [engine |-> [Backtrack(f, Level(f) - 1) EXCEPT !.conflict = None],
                clean |-> FALSE]
          ELSE ProbeOriginals(f, c, lits, idx, k - 1)

\* The loop of is_literal_empowering2_revert (copy 2) and of
\* is_literal_empowering_revert (copy 1): the negations of the other literals
\* are decided from right to left, until one is true or in conflict.
RECURSIVE Probe(_, _, _, _, _)
Probe(e, c, lits, idx, k) ==
  IF k = 0 \/ (k # idx /\ Val(e, lits[k]) = 1) THEN [engine |-> e, clean |-> k = 0]
  ELSE IF k = idx \/ Val(e, lits[k]) = -1 THEN Probe(e, c, lits, idx, k - 1)
  ELSE LET f == Propagate(SearchAssumeDecision(e, -lits[k]), c)
       IN IF f.conflict # None
          THEN [engine |-> [Backtrack(f, Level(f) - 1) EXCEPT !.conflict = None],
                clean |-> FALSE]
          ELSE Probe(f, c, lits, idx, k - 1)

\* is_literal_empowering2_revert (c = 2), is_literal_empowering_revert (c = 1)
IsLiteralEmpowering(e, c, lits, idx) ==
  LET isUnit == Val(e, lits[idx]) # 0 /\ LevelOf(e, lits[idx]) = 0
      start == Expect(Expect(e, Val(e, lits[idx]) = 0, "probe_undefined"),
                      e.propagated = Len(e.trail), "probe_propagated")
      p == Probe(start, c, lits, idx, Len(lits))
  IN IF isUnit THEN [engine |-> e, empowering |-> FALSE]
     ELSE [engine |-> p.engine,
           empowering |-> p.clean /\ Val(p.engine, lits[idx]) = 0]

\* Back to a level at which literal l is undefined, unless it is fixed.
Unassigned(e, l) ==
  IF Val(e, l) # 0 /\ LevelOf(e, l) > 0 THEN Backtrack(e, LevelOf(e, l) - 1) ELSE e

\* Mutant: only the first empowering literal is kept.
RECURSIVE ScanToFirst(_, _, _, _)
ScanToFirst(e, lits, n, indices) ==
  IF n > Len(lits) \/ indices # <<>> THEN [engine |-> e, possible |-> indices]
  ELSE LET p == IsLiteralEmpowering(Unassigned(e, lits[n]), 2, lits, n)
       IN ScanToFirst(p.engine, lits, n + 1, IF p.empowering THEN <<n>> ELSE <<>>)

\* scan_possible_empow_lit
RECURSIVE Scan(_, _, _, _)
Scan(e, lits, n, indices) ==
  IF n > Len(lits) THEN [engine |-> e, possible |-> indices]
  ELSE LET p == IsLiteralEmpowering(Unassigned(e, lits[n]), 2, lits, n)
       IN Scan(p.engine, lits, n + 1, IF p.empowering THEN Append(indices, n) ELSE indices)

\* The decisions on the negated literals but idx, from right to left, on copy 1
\* alone; the literals decided are written.
RECURSIVE DecideOthers(_, _, _, _, _)
DecideOthers(e, lits, idx, k, out) ==
  IF k = 0 \/ e.conflict # None \/ (k # idx /\ Val(e, lits[k]) = 1)
  THEN [engine |-> Expect(e, k = 0 /\ e.conflict = None /\ Val(e, lits[idx]) = 0, "redecide"),
        out |-> out]
  ELSE IF k = idx \/ Val(e, lits[k]) = -1 THEN DecideOthers(e, lits, idx, k - 1, out)
  ELSE DecideOthers(Propagate(SearchAssumeDecision(e, -lits[k]), 1), lits, idx,
                    k - 1, Append(out, Literal(-lits[k])))

\* The decisions a probe on copy 1 made above 'level', from right to left.
DecidedAbove(e, lits, idx, level) ==
  LET places == SelectSeq(Reverse([n \in DOMAIN lits |-> n]),
                          LAMBDA n : /\ n # idx /\ LevelOf(e, lits[n]) > level
                                     /\ ReasonOf(e, lits[n]) = None)
  IN [n \in DOMAIN places |-> Literal(-lits[places[n]])]

\* check_and_count: the clause just learned is the lemma, or subsumes it.
FoundEqual(e, ref, lits) == ref # None /\ LitsAt(e, ref) \subseteq ToSet(lits)

-----------------------------------------------------------------------------
Init ==
  /\ disk \in Inputs
  /\ given = <<>>
  /\ writer = Loaded(2, Formula)
  /\ lemma = <<>> /\ possible = <<>> /\ i = 0 /\ last_level = 0
  /\ wrote = FALSE /\ found_equal = FALSE
  /\ writer_res = IF writer.unsat THEN 20 ELSE 0
  /\ words = <<>>
  /\ reader = Loaded(1, Formula)
  /\ reader_res = IF reader.unsat THEN 20 ELSE 0

\* has_next_lemma and the scan; a lemma absorbed already is passed over.
ReadLemma(c) ==
  /\ words = <<>> /\ lemma = <<>> /\ writer_res = 0 /\ Len(given) < disk.most
  /\ ImpliedByPropagation(Clauses(Formula) \cup Clauses(given), ToSet(c))
  /\ given' = Append(given, c)
  /\ LET s == Scan(writer, c, 1, <<>>)
     IN /\ writer' = Backtrack(s.engine, 0)
        /\ possible' = s.possible
        /\ lemma' = IF s.possible = <<>> THEN <<>> ELSE c
  /\ last_level' = 0 /\ wrote' = FALSE /\ found_equal' = FALSE
  /\ UNCHANGED <<i, writer_res, words, readerVars>>

\* Mutant: p is not advanced.
SamePlace == possible

\* ++p
NextPlace == Tail(possible)

\* The condition of the loop over p no longer holds.
Done == possible = <<>> \/ found_equal \/ writer_res # 0

\* One turn of the loop over p up to the loop that absorbs the literal: back to
\* where it is undefined, probed once more, and if it is still empowering the
\* negations of the others are decided on copy 1 as far as it has not got them.
NextEmpoweringLiteral ==
  /\ words = <<>> /\ lemma # <<>> /\ i = 0 /\ ~Done
  /\ possible' = NextPlace
  /\ LET n == Head(possible)
         undef == Unassigned(writer, lemma[n])
         last == IF Val(writer, lemma[n]) = 0 THEN last_level
                 ELSE Min({last_level, Level(undef)})
         p == IsLiteralEmpowering(undef, 2, lemma, n)
         moved == Level(p.engine) # last
         d == DecideOthers(Backtrack(p.engine, last), lemma, n, Len(lemma), <<>>)
     IN /\ last_level' = last
        /\ IF p.empowering
           THEN /\ i' = n /\ wrote' = TRUE
                /\ writer' = d.engine
                /\ words' = (IF moved /\ wrote THEN <<BacktrackTo(last)>> ELSE <<>>) \o d.out
           ELSE /\ writer' = p.engine
                /\ UNCHANGED <<i, wrote, words>>
  /\ UNCHANGED <<given, lemma, found_equal, writer_res, readerVars>>

\* The conflict under the negated lemma is analysed, which leaves the driving
\* literal to be propagated.
Driven(e) == Analyze(Expect(e, e.conflict # None, "lemma_conflict"))
Ready(e) ==
  Expect(e, ~e.unsat /\ e.conflict = None /\ e.propagated = Len(e.trail) - 1,
         "driving_literal")
DrivingReason(ready) == ReasonOf(ready, ready.trail[ready.propagated + 1])

\* Literal i is absorbed; r is the reason of the driving literal.
Absorbed(e, r) ==
  /\ writer' = e /\ i' = 0
  /\ found_equal' = FoundEqual(e, r, lemma)
  /\ words' = <<Literal(-lemma[i])>>

\* Literal i is empowering still: the probe, repeated on copy 1, leaves the
\* decisions of the next turn above 'level'.
DecidedAgain(again, level) ==
  /\ writer' = Expect(again.engine,
                      again.empowering /\ LevelOf(again.engine, lemma[i]) > level,
                      "still_empowering")
  /\ words' = <<Literal(-lemma[i])>> \o DecidedAbove(again.engine, lemma, i, level)
  /\ UNCHANGED <<i, found_equal>>

\* One turn of the loop that absorbs literal i: its negation is decided, the
\* conflict analysed, and what the driving literal propagates decides whether
\* the literal is absorbed.
AbsorbLiteral ==
  /\ words = <<>> /\ i # 0
  /\ \E ready \in {Ready(Driven(Propagate(SearchAssumeDecision(writer, -lemma[i]), 1)))} :
     \E e \in {Propagate(ready, 1)} :
       \/ /\ e.conflict # None /\ Level(e) = 0
          /\ writer_res' = 20 /\ writer' = e /\ i' = 0
          /\ words' = <<Literal(-lemma[i])>>
          /\ UNCHANGED <<last_level, found_equal>>
       \/ /\ e.conflict # None /\ Level(e) > 0
          /\ Absorbed([Backtrack(e, Level(e) - 1) EXCEPT !.conflict = None],
                      DrivingReason(ready))
          /\ last_level' = Level(e) - 1
          /\ UNCHANGED writer_res
       \/ /\ e.conflict = None /\ last_level' = Level(e) /\ UNCHANGED writer_res
          /\ \E followed \in {FollowUp(e, ready.propagated)} :
               IF Val(e, lemma[i]) = 1 THEN Absorbed(followed, DrivingReason(ready))
               ELSE \E probe \in {IsLiteralEmpowering(followed, 2, lemma, i)} :
                 IF ~probe.empowering THEN Absorbed(probe.engine, DrivingReason(ready))
                 ELSE DecidedAgain(IsLiteralEmpowering(Backtrack(probe.engine, Level(e)),
                                                       1, lemma, i), Level(e))
  /\ UNCHANGED <<given, lemma, possible, wrote, readerVars>>

\* The end of the loop over p.
FinishLemma ==
  /\ words = <<>> /\ lemma # <<>> /\ i = 0 /\ Done
  /\ writer' = Backtrack(Expect(writer, wrote, "some_literal_absorbed"), 0)
  /\ words' = IF writer_res = 0 THEN <<Restart>> ELSE <<>>
  /\ lemma' = <<>> /\ possible' = <<>>
  /\ UNCHANGED <<given, i, last_level, wrote, found_equal, writer_res, readerVars>>

-----------------------------------------------------------------------------
\* One turn of the loop of read_branch_sequence, on the word w.
NextWord(w) ==
  /\ words # <<>> /\ Head(words).word = w /\ reader_res = 0
  /\ words' = Tail(words)
  /\ UNCHANGED <<given, writer, progress, writer_res>>

\* Mutant: the conflict is cleared, the trail is not.
RewoundNot(e, k) == [e EXCEPT !.conflict = None]

\* 'R' and 'bt': back to level k, a second conflict that was dropped forgotten.
Rewound(e, k) ==
  LET f == [Backtrack(e, k) EXCEPT !.conflict = None]
  IN Expect(f, f.propagated = Len(f.trail), "reader_propagated")

ReadRestart ==
  /\ NextWord("R")
  /\ reader' = Rewound(reader, 0)
  /\ UNCHANGED reader_res

ReadBacktrack ==
  /\ NextWord("bt")
  /\ reader' = Rewound(reader, Head(words).arg)
  /\ UNCHANGED reader_res

\* Mutant: the conflict is taken to have been analysed.
RefutedByAnalysis(e) == e.unsat

\* 'conflict at dl 0': the search ends, and the conflict is not analysed.
Refuted(e) == e.conflict # None /\ Level(e) = 0

\* A decision.  A conflict is analysed once; a second one is dropped without
\* a backtrack, for the writer has jumped back as well and will say where to.
ReadDecision ==
  /\ NextWord("lit")
  /\ \E l \in {Head(words).arg} :
       IF Val(reader, l) # 0
       THEN reader' = Expect(reader, FALSE, "reader_assigned") /\ UNCHANGED reader_res
       ELSE \E e \in {Propagate(SearchAssumeDecision(reader, l), 1)} :
         IF e.conflict = None \/ Refuted(e)
         THEN reader' = e /\ reader_res' = IF Refuted(e) THEN 20 ELSE 0
         ELSE \E f \in {Analyze(e)} :
              \E g \in {Propagate(Expect(f, ~f.unsat, "reader_unsat"), 1)} :
                /\ reader' = [g EXCEPT !.conflict = None]
                /\ reader_res' = IF Refuted(g) THEN 20 ELSE 0

Write ==
  \/ \E c \in disk.core : ReadLemma(c)
  \/ NextEmpoweringLiteral \/ AbsorbLiteral \/ FinishLemma

Read == ReadRestart \/ ReadBacktrack \/ ReadDecision

Next == (Write \/ Read) /\ UNCHANGED disk

Spec == Init /\ [][Next]_vars

-----------------------------------------------------------------------------
\* The level up to which the writer's trail comes from what it has written.
Written == CASE i # 0 -> Level(writer)
             [] i = 0 /\ lemma # <<>> -> last_level
             [] OTHER -> 0

\* With nothing left to read, the reader holds the clauses of the writer's copy
\* 1, literal by literal, the same watch lists and the same trail up to the
\* level written last, and both have, or have not, found the root conflict: the
\* bare list of words is enough to repeat the writer's run
\* (write_branching_sequence, read_branch_sequence).
ReplayExact ==
  words = <<>> =>
    /\ reader.db[1] = writer.db[1] /\ reader.watches[1] = writer.watches[1]
    /\ reader_res = writer_res
    /\ writer_res = 0 =>
         /\ Written <= Level(reader) /\ Written <= Level(writer)
         /\ LET mine == Backtrack(writer, Written) yours == Backtrack(reader, Written)
            IN /\ mine.trail = yours.trail /\ mine.control = yours.control
               /\ \A l \in ToSet(mine.trail) : mine.vtab[VarOf(l)] = yours.vtab[VarOf(l)]
         /\ i # 0 \/ lemma = <<>> => Level(reader) = Level(writer)

\* The assertions of both programs hold, but for the one in
\* is_literal_empowering2_revert that ProbedUndefined is about: deciding the
\* negation of a lemma conflicts, the two copies propagate the same and their
\* probes agree, every watch removed is there, and the reader is never told to
\* decide an assigned literal or to jump above its level (simulate.cpp,
\* analyze.cpp, watch.hpp).
AssertionsHold == writer.failed \cup reader.failed \subseteq {"probe_undefined"}

\* The assertion 'assert(val(c[idx]) == 0); // undef' at the head of
\* is_literal_empowering2_revert: a literal that is not fixed is undefined when
\* it is probed.
ProbedUndefined == "probe_undefined" \notin writer.failed

\* The two copies of a clause of the writer have the same literals and flags,
\* whatever order propagation and OTFS leave them in (clause_map).
CopiesAgree ==
  /\ Len(writer.db[1]) = Len(writer.db[2])
  /\ \A k \in DOMAIN writer.db[1] :
       LET mine == writer.db[1][k] copy == writer.db[2][k]
       IN /\ ToSet(mine.lits) = ToSet(copy.lits)
          /\ mine.red = copy.red /\ mine.garbage = copy.garbage

\* A live clause is watched once by each of its first two literals and by no
\* other, with a blocking literal of its own and the flag for binary clauses
\* right, in every copy and after every strengthening (watch.hpp,
\* on_the_fly_strengthen2).
WatchesExact ==
  \A e \in {writer, reader} : \A c \in Copies(e) : \A k \in DOMAIN e.db[c] :
    LET cl == e.db[c][k]
        Of(l) == SelectSeq(e.watches[c][l], LAMBDA w : w.clause = k)
    IN ~cl.garbage => \A l \in Lit :
         /\ Len(Of(l)) = IF l \in {cl.lits[1], cl.lits[2]} THEN 1 ELSE 0
         /\ \A w \in ToSet(Of(l)) : /\ w.blit \in ToSet(cl.lits) \ {l}
                                    /\ w.binary = (Len(cl.lits) = 2)

\* checkAllClausesPropagated: when the writer is between two steps, every live
\* clause is satisfied or has two undefined literals, although the levels of
\* its trail were propagated by one copy or the other.
PropagationComplete ==
  writer_res = 0 =>
    \A c \in Copies(writer) : \A k \in DOMAIN writer.db[c] :
      LET cl == writer.db[c][k]
      IN \/ cl.garbage \/ \E l \in ToSet(cl.lits) : Val(writer, l) = 1
         \/ Cardinality({l \in ToSet(cl.lits) : Val(writer, l) = 0}) >= 2

\* The reason of a literal above the root level is a clause that contains it at
\* one of the two watched places, has only false literals besides, assigned
\* before it, and the last of them on its own level; a literal without a reason
\* is the decision of its level (search_assign, otfs_find_backtrack_level).
ReasonsHold ==
  \A e \in {writer, reader} : \A l \in ToSet(e.trail) :
    LET cl == ClauseAt(e, ReasonOf(e, l))
        others == ToSet(cl.lits) \ {l}
    IN LevelOf(e, l) > 0 =>
         IF ReasonOf(e, l) = None
         THEN e.control[LevelOf(e, l)] + 1 = TrailOf(e, l)
         ELSE /\ l \in {cl.lits[1], cl.lits[2]}
              /\ \A o \in others : Val(e, o) = -1 /\ TrailOf(e, o) < TrailOf(e, l)
              /\ Max({LevelOf(e, o) : o \in others}) = LevelOf(e, l)

\* The clauses a propagation may use: the live ones and the root units.
Live(e) == {ToSet(cl.lits) : cl \in {d \in ToSet(e.db[1]) : ~d.garbage}}
           \cup {{l} : l \in {o \in Lit : Val(e, o) = 1 /\ LevelOf(e, o) = 0}}

Absorbs(cnf, c) ==
  \A l \in c : LET negated == Negation(c \ {l})
               IN Conflicting(cnf, negated) \/ l \in UnitClosure(cnf, negated)

\* Every lemma the writer is done with is absorbed: whichever literal is left
\* out, unit propagation from the negations of the others derives it or a
\* conflict, and that stays so while clauses are strengthened and dropped.
LemmasAbsorbed ==
  lemma = <<>> /\ writer_res = 0 =>
    \A n \in DOMAIN given : Absorbs(Live(writer), ToSet(given[n]))

ModelsOf ==
  [cnf \in {input.cnf : input \in Inputs} |->
     {m \in [Var -> BOOLEAN] : \A n \in DOMAIN cnf : \E l \in ToSet(cnf[n]) : m[VarOf(l)] = (l > 0)}]

\* Every clause and every root unit of either program follows from the formula,
\* and it reports 20 for an unsatisfiable formula only.
LearnedEntailed ==
  \A m \in ModelsOf[Formula] :
    /\ \A e \in {writer, reader} : \A c \in Live(e) : \E l \in c : m[VarOf(l)] = (l > 0)
    /\ writer_res # 20 /\ reader_res # 20

\* When the lemmas read so far refute the formula by unit propagation, the
\* writer has found the conflict on the root level, and so has the reader.
RefutationReached ==
  lemma = <<>> /\ words = <<>>
    /\ Conflicting(Clauses(Formula) \cup Clauses(given), {})
  => writer_res = 20 /\ reader_res = 20

\* A step of the writer that writes no word leaves copy 1 and its watch lists as
\* they are: the probes of the scan and of the loop over the literals run on
\* copy 2 alone (is_literal_empowering2_revert).
UnwrittenKeepsCopyOne ==
  [][words' = <<>> /\ words = <<>> =>
       writer'.db[1] = writer.db[1] /\ writer'.watches[1] = writer.watches[1]]_vars

\* A lemma that is taken up is finished and its sequence read to the end: the
\* loop that absorbs a literal ends, for each turn learns a clause that was not
\* absorbed before (write_branching_sequence, read_branch_sequence).
LemmaFinished == lemma # <<>> ~> lemma = <<>> /\ words = <<>>
=============================================================================
