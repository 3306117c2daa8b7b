----------------------------- MODULE Inprocess -----------------------------
(***************************************************************************)
(* Incremental solving with the techniques that change the formula: the    *)
(* user adds the clauses of an input in order, freezes, assumes and melts  *)
(* variables and calls 'solve' in between; the solver restores clauses,    *)
(* learns, eliminates variables and removes blocked clauses in any order.  *)
(* Which variables and literals a round tries, in which order and when it  *)
(* stops (schedules, efforts and termination) is left open.                *)
(***************************************************************************)
EXTENDS Block

CONSTANT Inputs \* what an execution starts with
\* clauses: a sequence, added in order; 'late' of them may come after a call of solve
\* learnable: clauses that may be learned, if they are entailed
\* freezable: literals that may be frozen or assumed
\* candidates, blocked: variables and literals with flags 'elim' and 'block'
\* decisions: literals search may have decided; orders: of literals by occurrences
\* techniques: those that are enabled, next to elimination and blocked clauses
\* rounds, most: bounds, on elimination rounds and on clauses ever allocated

ASSUME InprocessAssumption ==
  \A i \in Inputs :
    /\ i.clauses \in Seq(Seq(Lit)) /\ i.learnable \subseteq Seq(Lit)
    /\ i.freezable \cup i.blocked \cup i.decisions \subseteq Lit
    /\ i.candidates \subseteq Var /\ i.orders \subseteq Seq(Lit)
    /\ {i.late, i.rounds, i.most} \subseteq Nat

VARIABLES
  input,
  todo,   \* the clauses still to be added
  mode,
  rounds

vars == <<extensionVars, input, todo, mode, rounds>>

Init ==
  /\ ExtensionInit
  /\ input \in Inputs /\ todo = input.clauses /\ mode = "idle" /\ rounds = 0

Goto(m) == mode' = m /\ UNCHANGED <<input, todo, rounds>>
OnFormula(st) == Become(st) /\ UNCHANGED <<original, tainted, frozen>>

\* Nothing is left to propagate.
Propagated == UnitClosure({LitsOf(State, id) : id \in Live(State)}, units) = units

On(technique) == technique \in input.techniques /\ ~unsat /\ Len(lits) < input.most

-----------------------------------------------------------------------------
\* The user.
Add ==
  /\ mode = "idle" /\ todo # <<>>
  /\ AddClause(Head(todo)) /\ todo' = Tail(todo) /\ UNCHANGED <<input, mode, rounds>>

Assume(l) ==
  /\ mode = "idle" /\ Len(todo) <= input.late /\ l \notin frozen
  /\ Freeze(l) /\ UNCHANGED <<input, todo, mode, rounds>>

Melt(l) ==
  /\ mode = "idle" /\ l \in frozen
  /\ frozen' = frozen \ {l} /\ UNCHANGED <<original, formulaVars, tainted, input, todo, mode, rounds>>

Solve ==
  /\ mode = "idle" /\ Len(todo) <= input.late
  /\ RestoreClauses
  /\ mode' = "search" /\ UNCHANGED <<input, todo, rounds>>

Finish == mode = "search" /\ Goto("idle") /\ UNCHANGED extensionVars

\* A clause learned by search.
Learn(c) ==
  /\ mode = "search" /\ ~unsat
  /\ \A l \in ToSet(c) : Active(State, l)
  /\ \A id \in Live(State) : LitsOf(State, id) # ToSet(c)
  /\ Entails(Formula, ToSet(c))
  /\ OnFormula([State EXCEPT !.lits = Append(@, c), !.red = @ \cup {Len(lits) + 1}])
  /\ Goto(mode)

-----------------------------------------------------------------------------
\* elim, elim_round: satisfied clauses are garbage from the start.
ElimBegin ==
  /\ mode \in {"search", "between"} /\ ~unsat /\ rounds < input.rounds
  /\ OnFormula([State EXCEPT !.irr = {id \in @ : ~HasTrue(State, id, 0)}])
  /\ mode' = "elim" /\ rounds' = rounds + 1 /\ UNCHANGED <<input, todo>>

Eliminate(v) ==
  /\ mode = "elim" /\ ~unsat /\ Active(State, v) /\ ~Frozen(v)
  /\ OnFormula(TryToEliminate(State, v)) /\ Goto(mode)

ElimEnd ==
  /\ mode = "elim"
  /\ OnFormula([IF unsat THEN State ELSE FlushRedundant(State) EXCEPT !.stale = {}]) /\ Goto("between")

\* The units of the rounds are propagated over all clauses.
ElimDone ==
  /\ mode = "between"
  /\ Propagate(State) /\ UNCHANGED <<original, tainted, frozen>> /\ Goto("search")

BlockBegin ==
  /\ mode = "between" /\ ~unsat /\ irredundant # {}
  /\ \E U \in {UnitClosure({LitsOf(State, id) : id \in Live(State)}, units)} :
       LET st == [State EXCEPT !.units = U,
                    !.unsat = \E id \in Live(State) : Negated(LitsOf(State, id)) \subseteq U]
       IN IF st.unsat THEN OnFormula(st) /\ Goto(mode) ELSE OnFormula(Cleaned(st)) /\ Goto("block")

Block(l) ==
  /\ mode = "block" /\ Active(State, l) /\ ~Frozen(l)
  /\ OnFormula(Blocked(State, l)) /\ Goto(mode)

BlockEnd == mode = "block" /\ OnFormula(FlushRedundant(State)) /\ Goto("between")

Next ==
  \/ Add \/ Solve \/ Finish
  \/ \E l \in input.freezable : Assume(l) \/ Melt(l)
  \/ \E c \in input.learnable : Learn(c)
  \/ ElimBegin \/ ElimEnd \/ ElimDone \/ (\E v \in input.candidates : Eliminate(v))
  \/ BlockBegin \/ BlockEnd \/ (\E l \in input.blocked : Block(l))

Spec == Init /\ [][Next]_vars

-----------------------------------------------------------------------------
\* State by their types.
TypeOK ==
  /\ ExtensionTypeOK
  /\ todo \in Seq(Seq(Lit)) /\ mode \in {"idle", "search", "elim", "between", "block", "probe", "vivify"}
  /\ rounds \in 0 .. input.rounds

\* Outside a round no clause, learned ones included, has a variable that was
\* removed.
RemovedGone ==
  mode \in {"idle", "search"} /\ tainted = {} =>
    \A id \in Live(State) : \A l \in LitsOf(State, id) : status[Idx(l)] = "active"
=============================================================================
