---------------------------- MODULE LratChecker ----------------------------
(***************************************************************************)
(* The checker of LRAT proofs.  It looks clauses up by id and follows the  *)
(* antecedents it is given; clauses can be weakened, that is put aside to  *)
(* be restored later, and at the end each clause must have been finalized. *)
(***************************************************************************)
EXTENDS Integers, Sequences, SequencesExt, FiniteSets

VARIABLES
  entries,      \* the clauses in the hash table, with id and lits
  current_id,
  reconstruct,  \* clauses_to_reconstruct
  num_finalized,
  fatal         \* "none", or the message checking ended with

checkerVars == <<entries, current_id, reconstruct, num_finalized, fatal>>

CheckerInit(reserved) ==
  /\ entries = {} /\ current_id = reserved  \* begin_proof
  /\ reconstruct = {} /\ num_finalized = 0 /\ fatal = "none"

Present(id) == \E e \in entries : e.id = id
Literals(id) == (CHOOSE e \in entries : e.id = id).lits
Entry(id, C) == [id |-> id, lits |-> C]

\* One antecedent: it must be there, not used before, and unit or false when
\* the literals in 'falsified' are.
Follow(a, id) ==
  IF a.done \/ a.ok THEN a
  ELSE IF ~Present(id) \/ id \in a.used THEN [a EXCEPT !.done = TRUE]
  ELSE LET rest == Literals(id) \ a.falsified
       IN CASE rest = {} -> [a EXCEPT !.ok = TRUE]
            [] Cardinality(rest) = 1 -> [a EXCEPT !.falsified = @ \cup {-l : l \in rest},
                                                  !.used = @ \cup {id}]
            [] Cardinality(rest) > 1 -> [a EXCEPT !.done = TRUE]
Checks(C, chain) ==
  FoldLeft(Follow, [falsified |-> C, used |-> {}, done |-> FALSE, ok |-> FALSE], chain).ok

\* check_resolution: the antecedents resolved from the last to the first, each
\* literal against its negation, give a subset of the clause.
Resolve(R, id) == (R \ {-l : l \in Literals(id)}) \cup {l \in Literals(id) : -l \notin R}
ChecksResolution(C, chain) ==
  chain = <<>> \/ FoldRight(LAMBDA id, R : Resolve(R, id), Front(chain), Literals(Last(chain))) \subseteq C

CheckRestored(id, C) == IF Entry(id, C) \in reconstruct THEN fatal ELSE "restored"
CheckOriginalClause(id, C, restore) ==
  /\ fatal' = IF restore THEN CheckRestored(id, C) ELSE IF Present(id) THEN "present" ELSE fatal
  /\ reconstruct' = IF restore THEN reconstruct \ {Entry(id, C)} ELSE reconstruct
  /\ current_id' = IF ~restore /\ id = 1 + current_id THEN id ELSE current_id
  /\ entries' = entries \cup {Entry(id, C)}
  /\ UNCHANGED num_finalized

CheckDerivedClause(id, C, chain) ==
  /\ fatal' = IF id # current_id + 1 \/ Present(id) THEN "present"
              ELSE IF ~Checks(C, chain) \/ ~ChecksResolution(C, chain) THEN "derived" ELSE fatal
  /\ current_id' = id
  /\ entries' = entries \cup {Entry(id, C)}
  /\ UNCHANGED <<reconstruct, num_finalized>>

\* A deleted or finalized clause is found by its id; its literals must be
\* among those given.
Known(id, C) == Present(id) /\ Literals(id) \subseteq C

CheckDeletedClause(id, C, weaken) ==
  /\ fatal' = IF Known(id, C) THEN fatal ELSE "deleted"
  /\ reconstruct' = IF weaken THEN {e \in reconstruct : e.id # id} \cup {Entry(id, C)} ELSE reconstruct
  /\ entries' = {e \in entries : e.id # id}
  /\ UNCHANGED <<current_id, num_finalized>>

\* finalize_clause for each clause of L, then report_status.
CheckStatus(L) ==
  /\ fatal' = IF \E c \in L : ~Known(c.id, c.lits) THEN "deleted"
              ELSE IF Cardinality(L) # Cardinality(entries) THEN "finalized" ELSE fatal
  /\ num_finalized' = IF fatal' = fatal THEN 0 ELSE Cardinality(L)
  /\ UNCHANGED <<entries, current_id, reconstruct>>
=============================================================================
