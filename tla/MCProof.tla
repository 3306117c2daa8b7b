------------------------------ MODULE MCProof ------------------------------
(***************************************************************************)
(* The proof and those who check it, for TLC: the lines the writer emits,  *)
(* the online checker of DRUP proofs, and the builder of antecedents with  *)
(* the checker of LRAT proofs.  An execution is one of one part; the       *)
(* variables of the other parts are off.                                   *)
(***************************************************************************)
EXTENDS ProofLog

CONSTANT Parts \* some of "lines", "falsified", "conflict", "drup" and "lrat"

VARIABLES
  part,
  table, known_units, \* 'clauses' and 'unit_clauses' of the checkers
  live, seen, verdict, lits, garbage, watchers, trail, next_to_propagate,
  size_clauses, size_vars,
  reasons, unit_reasons, inconsistent_clause, inconsistent_chain, chain, failed,
  entries, current_id, reconstruct, num_finalized, fatal, deletions, concluded

\* Clauses that can be learned, strengthened and subsumed, and a unit that
\* satisfies one clause and shortens another.
LinesFormula == << {1, 2, 3}, {-1, 2, 3}, {4}, {4, 1}, {1, -2, -4}, {1, -3} >>

\* Formulas refuted while they are parsed, by a clause that is false and by a
\* conflict; up to there they imply LinesFormula clause by clause, so that
\* ClausesInProof can be stated of them too.
Parsed(second) == SubSeq(LinesFormula, 1, 3) \o second \o <<{1, -3}>>
Contradictory ==
  [falsified |-> Parsed(<< {-4}, {1, -2, -4} >>), conflict |-> Parsed(<< {-2, -4}, {-3, -4} >>)]
Refuting(f) == INSTANCE ProofLog WITH Formula <- f

\* Original and derived clauses on three variables, one with a duplicated
\* literal, one a unit that satisfies others.
DrupInputs == << <<3, 1, 2>>, <<-1, 2>>, <<1, -3>>, <<-2, -1, -3, -2>>, <<3>>, <<2>> >>
DrupOriginals == 1 .. 5
Drup == INSTANCE Checker WITH
  MaxVar <- 3, Originals <- DrupOriginals, Inputs <- DrupInputs, clauses <- table

\* Clauses refuted by unit propagation; each derived one can be derived in
\* several ways.
LratClauses ==
  << <<1>>, <<-1, 2>>, <<-2, -3, 4>>, <<3, 4>>, <<-4, -1, -2>>, <<2>>, <<4, -2>>, <<>> >>
LratInputs == LratClauses \o LratClauses
Lrat == INSTANCE LratProof WITH
  MaxVar <- 4, Inputs <- LratInputs, Ids <- 8, Reserved <- 5, MaxDeletions <- 3,
  clauses <- table, unit_clauses <- known_units

ASSUME ProofAssumption ==
  /\ Parts \subseteq {"lines", "drup", "lrat"} \cup DOMAIN Contradictory
  /\ \A p \in DOMAIN Contradictory : Refuting(Contradictory[p])!ProofLogAssumption
  /\ Drup!CheckerAssumption
  /\ Drup!Promised!ProofCheckingAssumption /\ Lrat!LratProofAssumption

-----------------------------------------------------------------------------
Off == 0
drupVars == <<live, verdict>>
engineVars == <<lits, garbage, watchers, trail, next_to_propagate, size_clauses, size_vars>>
lratVars == <<reasons, unit_reasons, inconsistent_clause, inconsistent_chain, chain, failed,
  entries, current_id, reconstruct, num_finalized, fatal, deletions, concluded>>
proofVars == <<part, table, known_units, seen, vars, drupVars, engineVars, lratVars>>

DrupOff == live = Off /\ verdict = Off
EngineOff == /\ lits = Off /\ garbage = Off /\ watchers = Off /\ trail = Off
             /\ next_to_propagate = Off /\ size_clauses = Off /\ size_vars = Off
LratOff == /\ reasons = Off /\ unit_reasons = Off /\ inconsistent_clause = Off
           /\ inconsistent_chain = Off /\ chain = Off /\ failed = Off /\ entries = Off
           /\ current_id = Off /\ reconstruct = Off /\ num_finalized = Off /\ fatal = Off
           /\ deletions = Off /\ concluded = Off

ProofInit ==
  /\ part \in Parts
  /\ Init \* the lines stay there when another part runs
  /\ \/ /\ part \in {"lines"} \cup DOMAIN Contradictory
        /\ table = Off /\ known_units = Off /\ seen = Off /\ DrupOff /\ EngineOff /\ LratOff
     \/ part = "drup" /\ Drup!Init /\ known_units = Off /\ LratOff
     \/ part = "lrat" /\ Lrat!Init /\ DrupOff

ProofNext ==
  /\ UNCHANGED part
  /\ \/ /\ \/ part = "lines" /\ Next
           \/ \E p \in DOMAIN Contradictory : part = p /\ Refuting(Contradictory[p])!Next
        /\ UNCHANGED <<table, known_units, seen, drupVars, engineVars, lratVars>>
     \/ part = "drup" /\ Drup!Next /\ UNCHANGED <<vars, known_units, lratVars>>
     \/ part = "lrat" /\ Lrat!Next /\ UNCHANGED <<vars, drupVars>>

ProofSpec == ProofInit /\ [][ProofNext]_proofVars

-----------------------------------------------------------------------------
\* The checker's hash table, lazy deletion and watches implement what a checker
\* of clausal proofs promises (checker.cpp).
Promised == INSTANCE ProofChecking WITH
  MaxVar <- 3, Originals <- DrupOriginals,
  Inputs <- DrupInputs,
  live <- IF part = "drup" THEN live ELSE {},
  seen <- IF part = "drup" THEN seen ELSE {},
  verdict <- IF part = "drup" THEN verdict ELSE "ok"
CheckerPromises == Promised!Spec

\* No watch of the checker or the builder points to a freed clause, between two
\* calls watches hold without the assumptions of checks, and literals on the
\* builder's trail follow from the ones before them, through all deletions.
WatchesJustified ==
  /\ part = "drup" => Drup!TypeOK /\ Drup!NoDanglingWatch /\ Drup!WatchesHold
  /\ part = "lrat" => Lrat!TypeOK /\ Lrat!NoDanglingWatch /\ Lrat!TrailJustified

\* The builder has a chain for each clause that unit propagation derives, the
\* checker of LRAT proofs accepts it, and both have the same clauses, though
\* clauses are deleted, weakened and restored in between (lratbuilder.cpp).
ChainsAccepted ==
  part = "lrat" => Lrat!ChainsAccepted /\ Lrat!BuilderComplete /\ Lrat!BuilderInconsistent
=============================================================================
