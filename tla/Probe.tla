------------------------------- MODULE Probe -------------------------------
(***************************************************************************)
(* Failed literal probing (probe.cpp): a root of the binary implication    *)
(* graph is decided and propagated, binary clauses first.  Each literal    *)
(* has one parent; a longer reason is replaced by the binary clause with   *)
(* the dominator of its literals (hyper binary resolution).  A conflict    *)
(* makes the dominator of its literals false on the root level.            *)
(***************************************************************************)
EXTENDS Inprocess

VARIABLES
  probe,    \* the literal decided, or 0
  tree,     \* the literals true on level 1, in order
  parents,  \* the parent of each of them, 0 for the probe
  clash     \* whether a parent of a failed literal was not false yet

probeVars == <<probe, tree, parents, clash>>
ProbeHbr == "hyper" \in input.techniques \* opts.probehbr

ProbeInit == probe = 0 /\ tree = <<>> /\ parents = <<>> /\ clash = FALSE

TreeVal(l) == IF l \in units \cup ToSet(tree) THEN 1 ELSE IF -l \in units \cup ToSet(tree) THEN -1 ELSE 0
NonRoot(id) == {l \in LitsOf(State, id) : Val(State, l) = 0}

RECURSIVE Ancestors(_)
Ancestors(l) == IF parents[l] = 0 THEN <<l>> ELSE <<l>> \o Ancestors(parents[l])

\* probe_dominator: from two literals up the tree until they meet.
Dominator(a, b) == LET up == SelectSeq(Ancestors(a), LAMBDA l : l \in ToSet(Ancestors(b))) IN up[1]

DominatorOf(L) == LET s == SetToSeq(L) IN FoldLeft(Dominator, s[1], s)

-----------------------------------------------------------------------------
\* The binary clauses, clauses with false literals included: is_binary_clause.
BinaryOccs(l) ==
  {id \in Live(State) : l \in NonRoot(id) /\ Cardinality(NonRoot(id)) = 2 /\ ~HasTrue(State, id, 0)}

\* generate_probes, flush_probes: the roots of the binary implication graph.
IsRoot(l) == BinaryOccs(-l) # {} /\ BinaryOccs(l) = {}

Assigned(l, parent) ==
  tree' = Append(tree, l) /\ parents' = [k \in DOMAIN parents \cup {l} |-> IF k = l THEN parent ELSE parents[k]]

ProbeDecide(l) ==
  /\ mode = "search" /\ On("probe") /\ probe = 0 /\ Propagated
  /\ Active(State, l) /\ IsRoot(l)
  /\ mode' = "probe" /\ probe' = l /\ Assigned(l, 0)
  /\ UNCHANGED <<extensionVars, input, todo, rounds, clash>>

TreeFalsified(id) == \A l \in LitsOf(State, id) : TreeVal(l) < 0
TreeForces(id, l) == TreeVal(l) = 0 /\ l \in LitsOf(State, id) /\ \A k \in LitsOf(State, id) \ {l} : TreeVal(k) < 0
Binary(id) == id \in Live(State) /\ Size(State, id) = 2
BinaryDone == \A id \in Live(State) : Binary(id) => ~\E l \in Lit : TreeForces(id, l)

\* Propagation goes on after a conflict, in the list of watches it is in.
ProbeBinary(id, l) ==
  /\ mode = "probe" /\ Binary(id) /\ TreeForces(id, l)
  /\ \E k \in LitsOf(State, id) \ {l} : Assigned(l, -k)
  /\ UNCHANGED <<vars, probe, clash>>

\* Mutant: the resolvent replaces its reason as a redundant clause.
HyperBinaryRedundant(st, id, dom, l) ==
  LET new == [st EXCEPT !.lits = Append(@, <<-dom, l>>), !.red = @ \cup {Len(st.lits) + 1}]
  IN IF -dom \in LitsOf(st, id) THEN MarkGarbage(new, id) ELSE new

\* Mutant: no resolvent that does not subsume its reason.
HyperBinaryContained(st, id, dom, l) ==
  IF -dom \in LitsOf(st, id) THEN HyperBinaryRedundant(st, id, dom, l) ELSE st

\* hyper_binary_resolve: with the dominator in it the reason is subsumed.
HyperBinary(st, id, dom, l) ==
  LET contained == -dom \in LitsOf(st, id)
      red == ~contained \/ id \in st.red
      new == Len(st.lits) + 1
      added == [st EXCEPT !.lits = Append(@, <<-dom, l>>),
                          !.red = @ \cup IF red THEN {new} ELSE {},
                          !.irr = @ \cup IF red THEN {} ELSE {new}]
  IN IF contained THEN MarkGarbage(added, id) ELSE added

ProbeLarge(id, l) ==
  /\ mode = "probe" /\ BinaryDone /\ Size(State, id) > 2 /\ TreeForces(id, l)
  /\ \E dom \in {DominatorOf(Negated(NonRoot(id) \ {l}))} :
       /\ Assigned(l, dom)
       /\ OnFormula(IF ProbeHbr /\ Cardinality(NonRoot(id)) > 2 THEN HyperBinary(State, id, dom, l) ELSE State)
  /\ Goto(mode) /\ UNCHANGED <<probe, clash>>

-----------------------------------------------------------------------------
PropagateState(st) ==
  LET U == UnitClosure({LitsOf(st, id) : id \in Live(st)}, st.units)
  IN [st EXCEPT !.units = U, !.unsat = @ \/ \E id \in Live(st) : Negated(LitsOf(st, id)) \subseteq U]

\* The parents of the dominator up to the probe: normally false by now.
FailedParent(r, parent) ==
  IF r.st.unsat \/ Val(r.st, parent) < 0 THEN r
  ELSE [st |-> IF Val(r.st, parent) > 0 THEN LearnEmpty(r.st) ELSE PropagateState(AssignUnit(r.st, -parent)),
        clash |-> ProbeHbr]

BacktrackProbe == probe' = 0 /\ tree' = <<>> /\ parents' = <<>>

FailedLiteral(id) ==
  /\ mode = "probe" /\ BinaryDone /\ TreeFalsified(id)
  /\ \E uip \in {DominatorOf(Negated(NonRoot(id)))} :
     \E r \in {FoldLeft(FailedParent, [st |-> PropagateState(AssignUnit(State, -uip)), clash |-> FALSE],
                        Tail(Ancestors(uip)))} :
       OnFormula(r.st) /\ clash' = (clash \/ r.clash)
  /\ BacktrackProbe /\ Goto("search")

ProbeDone ==
  /\ mode = "probe" /\ BinaryDone /\ \A id \in Live(State) : ~TreeFalsified(id) /\ ~\E l \in Lit : TreeForces(id, l)
  /\ BacktrackProbe /\ Goto("search") /\ UNCHANGED <<extensionVars, clash>>

Probing ==
  \/ \E l \in Lit : ProbeDecide(l)
  \/ \E id \in irredundant \cup redundant : \E l \in LitsOf(State, id) : ProbeBinary(id, l) \/ ProbeLarge(id, l)
  \/ \E id \in irredundant \cup redundant : FailedLiteral(id)
  \/ ProbeDone

-----------------------------------------------------------------------------
\* 'assertion should hold here': with hyper binary resolvents the negation of
\* the dominator makes all its ancestors false, the probe included.
ParentsFail == ~clash

\* A literal is implied by its parent alone, so that the parent is true in each
\* model in which a descendant is false only if it has failed.
TreeImplied ==
  \A l \in ToSet(tree) :
    parents[l] # 0 => \A M \in Models(Formula) : Holds(M, parents[l]) => Holds(M, l)
=============================================================================
