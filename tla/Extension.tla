----------------------------- MODULE Extension -----------------------------
(***************************************************************************)
(* The external view of the formula: clauses that were removed although    *)
(* they are not implied lie on the extension stack, each with a witness    *)
(* that satisfies it.  'extend' turns a model of what is left into one of  *)
(* all clauses added; 'restore_clauses' takes clauses back from the stack  *)
(* when the user adds literals that could falsify a witness.  Internal and *)
(* external literals are the same here.                                    *)
(***************************************************************************)
EXTENDS Formula

CONSTANTS
  IdWord,     \* 2^32 in the code: the value of a word of the stack
  RestoreAll, \* opts.restoreall
  Restoreflush

ASSUME ExtensionAssumption ==
  IdWord \in Nat \ {0} /\ RestoreAll \in 0 .. 2 /\ Restoreflush \in BOOLEAN

VARIABLES
  original,    \* the clauses added so far
  lits,        \* of each clause ever allocated
  irredundant, redundant, \* the clauses that are not garbage
  units,       \* the literals true on the root level
  unsat,
  extension,   \* entries with witness, id and clause
  tainted,
  status,      \* of each variable: unused, active, eliminated, substituted, pure
  frozen,      \* the literals frozen or assumed by the user
  stale        \* garbage still on an occurrence list: literals with clauses

internal == <<lits, irredundant, redundant, units, unsat>>
formulaVars == <<internal, extension, status, stale>>
extensionVars == <<original, formulaVars, tainted, frozen>>

ExtensionInit ==
  /\ original = {} /\ lits = <<>> /\ irredundant = {} /\ redundant = {}
  /\ units = {} /\ unsat = FALSE /\ extension = <<>> /\ tainted = {}
  /\ status = [v \in Var |-> "unused"] /\ frozen = {} /\ stale = {}

\* What a technique changes, threaded through the steps it takes.
State == [lits |-> lits, irr |-> irredundant, red |-> redundant, units |-> units,
          unsat |-> unsat, ext |-> extension, status |-> status, stale |-> stale]
Become(st) ==
  /\ lits' = st.lits /\ irredundant' = st.irr /\ redundant' = st.red
  /\ units' = st.units /\ unsat' = st.unsat /\ extension' = st.ext /\ status' = st.status
  /\ stale' = st.stale

Val(st, l) == IF l \in st.units THEN 1 ELSE IF -l \in st.units THEN -1 ELSE 0
LitsOf(st, id) == ToSet(st.lits[id])
Frozen(l) == l \in frozen \/ -l \in frozen
Active(st, l) == st.status[Idx(l)] = "active" /\ Val(st, l) = 0
Live(st) == st.irr \cup st.red
MarkGarbage(st, id) == [st EXCEPT !.irr = @ \ {id}, !.red = @ \ {id}]

NewIrredundant(st, c) == [st EXCEPT !.lits = Append(@, c), !.irr = @ \cup {Len(st.lits) + 1}]
AssignUnit(st, l) == [st EXCEPT !.units = @ \cup {l}]
LearnEmpty(st) == [st EXCEPT !.unsat = TRUE]
Mark(st, l, how) == [st EXCEPT !.status[Idx(l)] = how]
Fixed(l) == l \in units

\* Root level propagation to the end.
Propagate(st) ==
  \E U \in {UnitClosure({LitsOf(st, id) : id \in Live(st)}, st.units)} :
    Become([st EXCEPT !.units = U,
              !.unsat = @ \/ \E id \in Live(st) : Negated(LitsOf(st, id)) \subseteq U])

-----------------------------------------------------------------------------
\* push_id_on_extension_stack shifts the id to the left for both words.
PushedId(id) == id % IdWord

Entry(W, id, C) == [witness |-> W, id |-> PushedId(id), clause |-> C]
PushClause(st, W, id) == [st EXCEPT !.ext = Append(@, Entry(W, id, LitsOf(st, id)))]

\* The witnesses of falsified clauses are made true, from the last to the first.
Extend(M, ext) ==
  FoldRight(LAMBDA e, N : IF Satisfies(N, e.clause) THEN N
                          ELSE {v \in Var : IF v \in e.witness \/ -v \in e.witness
                                            THEN v \in e.witness ELSE v \in N}, ext, M)

\* The witness bits: marked by each push, recomputed after restoring.
IsWitness(l, ext) == \E n \in DOMAIN ext : l \in ext[n].witness

-----------------------------------------------------------------------------
\* Mutant: a variable is made active again but its negation not tainted.
InternalizeActive(a, L, ext) ==
  [a EXCEPT !.st.status = [v \in Var |-> IF v \in L \/ -v \in L THEN "active" ELSE @[v]]]

\* The literals of a clause or an assumption.
Internalize(a, L, ext) ==
  [a EXCEPT !.st.status = [v \in Var |-> IF v \in L \/ -v \in L THEN "active" ELSE @[v]],
            !.tainted = @ \cup {l \in L : IsWitness(-l, ext)}]

\* add_new_original_clause: satisfied and tautological clauses are dropped,
\* false literals left out (the clauses given have no literal twice).
AddOriginal(st, c) ==
  LET C == {l \in ToSet(c) : Val(st, l) >= 0}
  IN CASE \E l \in C : Val(st, l) > 0 \/ -l \in C -> st
       [] C = {} -> LearnEmpty(st)
       [] Cardinality(C) = 1 -> AssignUnit(st, CHOOSE l \in C : TRUE)
       [] OTHER -> NewIrredundant(st, SelectSeq(c, LAMBDA l : l \in C))

AddClause(c) ==
  \E a \in {Internalize([st |-> State, tainted |-> tainted], ToSet(c), extension)} :
    /\ Become(AddOriginal(a.st, c)) /\ tainted' = a.tainted
    /\ original' = original \cup {ToSet(c)}
    /\ UNCHANGED frozen

\* assume, or freeze by the user.
Freeze(l) ==
  \E a \in {Internalize([st |-> State, tainted |-> tainted], {l}, extension)} :
    /\ Become(a.st) /\ tainted' = a.tainted
    /\ frozen' = frozen \cup {l}
    /\ UNCHANGED original

\* One entry of the stack is kept, flushed as satisfied, or restored, which
\* taints in turn.  Bits marked before, though some may be gone from the
\* stack, count as witnesses.
RestoreEntry(a, e) ==
  IF Restoreflush /\ \E l \in e.clause : Fixed(l) THEN a
  ELSE IF RestoreAll > 0 \/ \E l \in e.witness : -l \in a.tainted
  THEN LET b == Internalize(a, e.clause, extension)
       IN [b EXCEPT !.st = AddOriginal(b.st, SetToSeq(e.clause))]
  ELSE [a EXCEPT !.st.ext = Append(@, e)]

RestoreClauses ==
  IF RestoreAll <= 1 /\ tainted = {} THEN UNCHANGED extensionVars
  ELSE \E a \in {FoldLeft(RestoreEntry, [st |-> [State EXCEPT !.ext = <<>>], tainted |-> tainted],
                          extension)} :
         Propagate(a.st) /\ tainted' = {} /\ UNCHANGED <<original, frozen>>

-----------------------------------------------------------------------------
Irredundant == {ToSet(lits[id]) : id \in irredundant} \cup {{l} : l \in units}
Formula == Irredundant \cup {ToSet(lits[id]) : id \in redundant}

\* State by their types.
ExtensionTypeOK ==
  /\ lits \in Seq(Seq(Lit))
  /\ irredundant \subseteq DOMAIN lits /\ redundant \subseteq DOMAIN lits \ irredundant
  /\ units \subseteq Lit /\ (unsat \/ units \cap Negated(units) = {})
  /\ tainted \subseteq Lit /\ frozen \subseteq Lit /\ unsat \in BOOLEAN
  /\ stale \subseteq Lit \X (DOMAIN lits \ irredundant)
  /\ status \in [Var -> {"unused", "active", "eliminated", "substituted", "pure"}]

\* With nothing tainted every assignment that satisfies the irredundant clauses
\* left, with any value of the variables removed from them, is extended to a
\* model of all clauses added so far.
ModelsExtend ==
  tainted = {} /\ ~unsat =>
    \A M \in Models(Irredundant) : \A C \in original : Satisfies(Extend(M, extension), C)

\* Nothing is invented: whatever is left, learned or derived as a unit follows
\* from the clauses added, and the formula is found unsatisfiable only if it is.
NothingInvented ==
  \A M \in Models(original) : ~unsat /\ \A C \in Formula : Satisfies(M, C)

\* A literal that is frozen or assumed and true in the solver is not made false
\* by the extension: the model the user gets has the assumptions.
FrozenKept ==
  tainted = {} =>
    \A M \in Models(Irredundant) : \A l \in frozen : Holds(M, l) => Holds(Extend(M, extension), l)

=============================================================================
