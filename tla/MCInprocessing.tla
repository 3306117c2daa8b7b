--------------------------- MODULE MCInprocessing ---------------------------
(***************************************************************************)
(* Inprocessing as a whole for TLC: each execution begins with one input   *)
(* and the techniques enabled for it, so that what they do to each other   *)
(* is met as well as what each does alone.                                 *)
(***************************************************************************)
EXTENDS Simplify, Probe, Vivify

allVars == <<vars, probeVars, vivifyVars>>

InprocessingInit == Init /\ ProbeInit /\ VivifyInit
InprocessingNext ==
  \/ (Next \/ Simplifying) /\ UNCHANGED <<probeVars, vivifyVars>>
  \/ Probing /\ UNCHANGED vivifyVars
  \/ Vivifies /\ UNCHANGED probeVars
InprocessingSpec == InprocessingInit /\ [][InprocessingNext]_allVars

-----------------------------------------------------------------------------
Plain ==
  [clauses |-> <<>>, learnable |-> {}, freezable |-> {}, candidates |-> {}, blocked |-> {},
   decisions |-> {}, orders |-> {}, techniques |-> {}, late |-> 1, rounds |-> 0, most |-> 10]

\* Variable 3 defined in each of the ways gates are recognised, then clauses
\* with it: 3 = -1; 3 = 1 /\ 2; 3 = (1 ? 2 : 4); 3 = 1 xor 2; and no definition.
EquivalenceClauses == << <<3, 1>>, <<-3, -1>>, <<3, 2>>, <<-3, 4, -2>>, <<1, -4>>, <<-3, -2>> >>
AndClauses == << <<-3, 1>>, <<-3, 2>>, <<3, -1, -2>>, <<3, 4>>, <<-3, -4, 1>>, <<3>> >>
OrClauses == << <<3, 1>>, <<3, 2>>, <<-3, -1, -2>>, <<3, 4>>, <<-3, -4>>, <<-3, -1>> >>
IteClauses == << <<-3, -1, 2>>, <<-3, 1, 4>>, <<3, -1, -2>>, <<3, 1, -4>>, <<3, -2, -4>>, <<-3, 1>> >>
XorClauses == << <<3, 1, -2>>, <<3, -1, 2>>, <<-3, 1, 2>>, <<-3, -1, -2>>, <<3, 4>>, <<-3, -4, 1>>, <<-4>> >>
UndefinedClauses == << <<1, 2>>, <<-1, 3>>, <<-2, -3, 4>>, <<1, -4>>, <<-1, -2>>, <<2, 3>> >>
GateInputs == {EquivalenceClauses, AndClauses, OrClauses, IteClauses, XorClauses, UndefinedClauses}

Gated(clauses, candidates, blocked) ==
  [Plain EXCEPT !.clauses = clauses, !.learnable = {<<-3, 1>>}, !.freezable = {-3},
                !.candidates = candidates, !.blocked = blocked, !.rounds = 2]
ElimInputs ==
  {Gated(c, {1, 3, 4}, {}) : c \in GateInputs} \cup
  {Gated(c, {2}, {1, 3, -3, -4}) : c \in {EquivalenceClauses, AndClauses, OrClauses, XorClauses}}

Simple(clauses, techniques, most) ==
  [Plain EXCEPT !.clauses = clauses, !.techniques = techniques \cup {"propagate"}, !.most = most,
                !.learnable = {<<-1, -3>>}, !.freezable = {4}, !.decisions = {1, -2}]
\* The last clause is covered.
CoveredClauses == << <<1, 2, 3>>, <<-1, 4>>, <<-2, -4, 3>>, <<-4, 2>>, <<-3, 1, 4>>, <<-1, -2>> >>
ConditionedClauses == << <<1, 2, 3>>, <<-1, -2>>, <<-3, 4, 1>>, <<2, -4>>, <<1, 4>>, <<-2, 3>> >>
\* Equivalent literals, duplicated and transitive binary clauses.
Equivalent ==
  { << <<-1, 2>>, <<-2, 3>>, <<-3, 1>>, <<1, 4, 3>>, <<-2, -4, 1>>, <<-1, 3>>, <<-4, -3>> >>,
    << <<-1, 2>>, <<-1, 3>>, <<1, 2>>, <<-2, -3>>, <<4, 1, 2>>, <<-3, 4>>, <<-4>> >>,
    << <<1, -4>>, <<-1, 4>>, <<2, -3>>, <<-2, 3>>, <<1, 2>>, <<3, 4, -1>>, <<-4, -3>>, <<-4, -2, -1>> >>,
    << <<1, 2>>, <<-1, -2>>, <<2, 3>>, <<-2, -3>>, <<1, 3, 4>>, <<-1, -4, 2>>, <<1, 3>> >>,
    << <<1, 2>>, <<-1, 2>>, <<-2, 3>>, <<-3, 4>>, <<-2, 4>>, <<2, 3, -4>>, <<-1, 3, 2>> >> }
Subsumable ==
  { << <<1, 2, 3>>, <<-1, 2, 4>>, <<1, 2, 3, 4>>, <<-3, 4, 2>>, <<-2, 3, -4>>, <<-4, 1>> >>,
    << <<1, 2, 3>>, <<-1, 2, 3>>, <<-2, 3, 4>>, <<2, -3>>, <<-4, -2>> >> }
\* One decision and a literal to freeze, or two decisions.
ConditionInputs ==
  {[Simple(ConditionedClauses, {"condition"}, 10) EXCEPT !.decisions = {l}] : l \in {1, -2}} \cup
  {[Simple(ConditionedClauses, {"condition"}, 10) EXCEPT !.freezable = {}]}
SimplifyInputs ==
  {Simple(CoveredClauses, {"cover"}, 10)} \cup ConditionInputs \cup
  {Simple(c, {"decompose", "deduplicate", "transred"}, 16) : c \in Equivalent} \cup
  {Simple(c, {"subsume", "ternary"}, 7) : c \in Subsumable}

\* Literals that meet again behind a decision, with and without a conflict.
Diamonds ==
  { << <<-1, 2>>, <<-2, 3>>, <<-2, 4>>, <<-3, -4, 5>>, <<-5, -4, -2, 1>>, <<-5, -3, -1>> >>,
    << <<-1, 2>>, <<-2, 3>>, <<-2, 4>>, <<-3, -4, 5>>, <<-4, -5, -3>>, <<5, 1, 2>> >>,
    << <<-1, 2>>, <<-1, 3>>, <<-2, -3, 4>>, <<-4, -1, 5>>, <<5, 2, -3>>, <<-5, 3, 4>>, <<4>> >>,
    << <<-1, 2>>, <<-1, 3>>, <<-2, -3, -1, 4>>, <<-4, -3, 5>>, <<4, 1, -2>>, <<-5, -4, 3>>, <<3, 5>> >>,
    << <<-1, 2>>, <<-2, 4>>, <<-1, 3>>, <<-3, -4, 5>>, <<-5, -4, -2>>, <<5, 2, 3>> >>,
    << <<-1, 3>>, <<-1, 4>>, <<-3, -4, 5>>, <<-5, -2>>, <<-5, 2>>, <<1, 3, 4>> >> }
Probed(clauses, techniques) ==
  [Plain EXCEPT !.clauses = clauses, !.techniques = techniques, !.most = 11, !.rounds = 1,
                !.learnable = {<<-2, 5>>, <<-1, -3, 4>>}]
ProbeInputs ==
  {Probed(c, {"probe", "hyper"}) : c \in Diamonds} \cup
  {[Probed(c, {"probe"}) EXCEPT !.freezable = {5}, !.candidates = {2}] : c \in Diamonds}

\* Clauses with common prefixes, implied and shortened by each other, with
\* redundant ones that make irredundant ones look redundant.
VivifyInputs ==
  {[Plain EXCEPT !.clauses = c, !.techniques = {"vivify", "vivifyinst", "instantiate"}, !.late = 0,
      !.rounds = 1, !.most = 20, !.learnable = {<<1, 2, 4, 5>>, <<2, 4, -5>>, <<2, -4, 5>>},
      !.orders = {<<1, 2, 3, 4, 5, -1, -2, -3, -4, -5>>, <<-3, -4, 5, 4, 3, 2, 1, -1, -2, -5>>}] :
     c \in { << <<1, 2, 3>>, <<1, 2, 4>>, <<-3, 4, 2>>, <<-4, 5, 1>>, <<-5, 3, 2>>, <<1, 2, 5>> >>,
             << <<1, 2, 3, 4>>, <<1, 2, 3, -4, 5>>, <<-5, -1, 2, 3>>, <<4, -2, -1>>, <<-3, 5, 2>>, <<-1, -4, 3>> >> }}

AllInputs == ElimInputs \cup SimplifyInputs \cup ProbeInputs \cup VivifyInputs

\* 1 is eliminated with the unit 3 left unpropagated: {5, 6, 7} is a resolvent,
\* {5, 3, 6} is satisfied and {5, -6, -7} comes after it.
BackwardInputs ==
  {[Plain EXCEPT !.candidates = {1}, !.late = 0, !.rounds = 1, !.clauses =
    << <<1, 2, 3>>, <<-1, 3, 4>>, <<1, -2, 8>>, <<1, -8>>, <<-1, -8>>, <<-1, -2>>, <<2, -4>>, <<1, 5, 6>>, <<-1, 7>>,
       <<5, 3, 6>>, <<5, -6, -7>>, <<6, 7, 10>>, <<6, 7, -10>>, <<7, 9>> >>]}
AllGates == {"equivalence", "and", "ite", "xor"}

-----------------------------------------------------------------------------
\* Types, and outside a round no clause, learned ones included, has a variable
\* that was removed (elim.cpp, block.cpp, decompose.cpp).
VariablesKept == TypeOK /\ RemovedGone

\* What the code says of its trails: with hyper binary resolvents the negation
\* of a dominator makes all its ancestors false, each literal is implied by its
\* parent alone, the literal that vivification instantiates is open once the
\* last decision is undone, and no clause has lost its watches when one
\* candidate follows another on the same trail (probe.cpp, vivify.cpp).
TrailsHold == ParentsFail /\ TreeImplied /\ TrailConsistent /\ NothingMissed
=============================================================================
