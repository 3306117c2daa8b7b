----------------------------- MODULE CdclProofs -----------------------------
(***************************************************************************)
(* Proofs about Cdcl, for every set of variables and every formula: type   *)
(* correctness, soundness of every clause the solver derives, correctness  *)
(* of the answer UNSAT; then that the trail justifies itself, analysis     *)
(* stays on it, the clause that drives the search is new, and the          *)
(* irredundant clauses keep the formula.                                   *)
(***************************************************************************)
EXTENDS Cdcl, TLAPS

-----------------------------------------------------------------------------
(***************************************************************************)
(* Literals, and the shape of the trail and the control stack.             *)
(***************************************************************************)
LEMMA LitFacts == /\ \A l \in Lit : -l \in Lit /\ l \in Int /\ -(-l) = l
                  /\ \A l \in Lit : l # -l
BY VarAssumption DEF Lit

LEMMA FormulaClause ==
  ASSUME TypeOK
  PROVE  Formula \in Seq(SUBSET Lit) /\ \A i \in DOMAIN Formula : Formula[i] \in SUBSET Lit
BY InputsAssumption DEF TypeOK, Formula

LEMMA NoClauseType == NoClause \in Clause
BY DEF NoClause, Clause

\* Position i lies above the decision of level k exactly when its literal is
\* assigned on level k or higher.
Shape(t, ctl) ==
  /\ \A k \in DOMAIN ctl : ctl[k] <= Len(t)
  /\ \A k \in DOMAIN ctl : \A i \in DOMAIN t : ctl[k] < i <=> k <= t[i].level
  /\ \A i \in DOMAIN t : t[i].level <= Len(ctl)

LEMMA TrailEntry ==
  ASSUME NEW t \in Seq(Entry), NEW i \in DOMAIN t
  PROVE  /\ i \in Nat /\ t[i] \in Entry
         /\ t[i].lit \in Lit /\ t[i].level \in Nat /\ t[i].reason \in Clause
<1>1. i \in Nat /\ t[i] \in Entry
  OBVIOUS
<1> QED BY <1>1 DEF Entry

LEMMA AppendEntry ==
  ASSUME NEW t \in Seq(Entry), NEW e \in Entry
  PROVE  /\ Append(t, e) \in Seq(Entry)
         /\ Len(Append(t, e)) = Len(t) + 1
         /\ DOMAIN Append(t, e) = DOMAIN t \cup {Len(t) + 1}
         /\ \A i \in DOMAIN t : Append(t, e)[i] = t[i]
         /\ Append(t, e)[Len(t) + 1] = e
OBVIOUS

LEMMA AppendShape ==
  ASSUME NEW t \in Seq(Entry), NEW ctl \in Seq(Nat), Shape(t, ctl),
         NEW e \in Entry, e.level = Len(ctl)
  PROVE  Shape(Append(t, e), ctl)
<1> DEFINE u == Append(t, e)
<1>1. /\ Len(u) = Len(t) + 1
      /\ DOMAIN u = DOMAIN t \cup {Len(t) + 1}
      /\ \A i \in DOMAIN t : u[i] = t[i]
      /\ u[Len(t) + 1] = e
  BY AppendEntry
<1>2. \A k \in DOMAIN ctl : ctl[k] \in Nat /\ k \in Nat /\ k <= Len(ctl)
  OBVIOUS
<1>3. Len(t) \in Nat
  OBVIOUS
<1> HIDE DEF u
<1>4. \A k \in DOMAIN ctl : ctl[k] <= Len(u)
  BY <1>1, <1>2, <1>3 DEF Shape
<1>5. \A i \in DOMAIN u : u[i].level <= Len(ctl)
  BY <1>1 DEF Shape
<1>6. \A k \in DOMAIN ctl : \A i \in DOMAIN u : ctl[k] < i <=> k <= u[i].level
  BY <1>1, <1>2, <1>3, SMTT(60) DEF Shape
<1> QED BY <1>4, <1>5, <1>6, SMTT(60) DEF Shape, u

LEMMA DecideShape ==
  ASSUME NEW t \in Seq(Entry), NEW ctl \in Seq(Nat), Shape(t, ctl),
         NEW e \in Entry, e.level = Len(ctl) + 1
  PROVE  Shape(Append(t, e), Append(ctl, Len(t)))
<1> DEFINE u == Append(t, e)
           v == Append(ctl, Len(t))
<1>1. /\ Len(u) = Len(t) + 1
      /\ DOMAIN u = DOMAIN t \cup {Len(t) + 1}
      /\ \A i \in DOMAIN t : u[i] = t[i]
      /\ u[Len(t) + 1] = e
  BY AppendEntry
<1>2. /\ Len(v) = Len(ctl) + 1
      /\ DOMAIN v = DOMAIN ctl \cup {Len(ctl) + 1}
      /\ \A k \in DOMAIN ctl : v[k] = ctl[k]
      /\ v[Len(ctl) + 1] = Len(t)
  OBVIOUS
<1>3. /\ Len(t) \in Nat /\ Len(ctl) \in Nat
      /\ \A i \in DOMAIN t : i \in Nat /\ i <= Len(t)
      /\ \A k \in DOMAIN ctl : ctl[k] \in Nat /\ k \in Nat /\ k <= Len(ctl)
  OBVIOUS
<1>4. \A i \in DOMAIN t : t[i].level \in Nat
  BY TrailEntry
<1> HIDE DEF u, v
<1>5. \A k \in DOMAIN v : v[k] <= Len(u)
  BY <1>1, <1>2, <1>3 DEF Shape
<1>6. \A i \in DOMAIN u : u[i].level <= Len(v)
  BY <1>1, <1>2, <1>3, <1>4 DEF Shape
<1>7. \A k \in DOMAIN v : \A i \in DOMAIN u : v[k] < i <=> k <= u[i].level
  BY <1>1, <1>2, <1>3, <1>4, SMTT(60) DEF Shape
<1> QED BY <1>5, <1>6, <1>7 DEF Shape, u, v

LEMMA UnwoundFacts ==
  ASSUME TypeOK, Shape(trail, control), NEW k \in 0 .. Level
  PROVE  /\ Height(k) \in 0 .. Len(trail)
         /\ Unwound(k) \in Seq(Entry)
         /\ Len(Unwound(k)) = Height(k)
         /\ \A i \in 1 .. Height(k) : Unwound(k)[i] = trail[i]
         /\ \A i \in DOMAIN trail : i <= Height(k) <=> trail[i].level <= k
<1> USE DEF TypeOK, Shape, Level
<1>0. \A i \in DOMAIN trail : trail[i].level \in Nat /\ i \in Nat
  BY TrailEntry
<1>1. /\ Height(k) \in 0 .. Len(trail)
      /\ \A i \in DOMAIN trail : i <= Height(k) <=> trail[i].level <= k
  <2>1. CASE k < Len(control)
    <3>1. k + 1 \in DOMAIN control /\ Height(k) = control[k + 1]
      BY <2>1 DEF Height
    <3>2. control[k + 1] \in Nat
      BY <3>1
    <3> QED BY <1>0, <3>1, <3>2, SMTT(60)
  <2>2. CASE k >= Len(control)
    <3>1. Height(k) = Len(trail)
      BY <2>2 DEF Height
    <3> QED BY <1>0, <2>2, <3>1
  <2> QED BY <2>1, <2>2
<1>2. /\ Unwound(k) \in Seq(Entry)
      /\ Len(Unwound(k)) = Height(k)
      /\ \A i \in 1 .. Height(k) : Unwound(k)[i] = trail[i]
  BY <1>1 DEF Unwound
<1> QED BY <1>1, <1>2

LEMMA ControlCut ==
  ASSUME TypeOK, NEW k \in 0 .. Level
  PROVE  /\ SubSeq(control, 1, k) \in Seq(Nat)
         /\ Len(SubSeq(control, 1, k)) = k
         /\ DOMAIN SubSeq(control, 1, k) = 1 .. k
         /\ \A j \in 1 .. k : SubSeq(control, 1, k)[j] = control[j]
BY DEF TypeOK, Level

LEMMA CutShape ==
  ASSUME TypeOK, Shape(trail, control), NEW k \in 0 .. Level
  PROVE  Shape(Unwound(k), SubSeq(control, 1, k))
<1> DEFINE t == Unwound(k)
           ctl == SubSeq(control, 1, k)
<1>1. /\ Len(ctl) = k
      /\ DOMAIN ctl = 1 .. k
      /\ \A j \in 1 .. k : ctl[j] = control[j]
  BY ControlCut
<1>2. /\ Height(k) \in 0 .. Len(trail)
      /\ DOMAIN t = 1 .. Height(k)
      /\ Len(t) = Height(k)
      /\ \A i \in 1 .. Height(k) : t[i] = trail[i]
      /\ \A i \in DOMAIN trail : i <= Height(k) <=> trail[i].level <= k
  BY UnwoundFacts
<1>3. /\ k \in Nat /\ k <= Len(control) /\ DOMAIN control = 1 .. Len(control)
      /\ Len(trail) \in Nat /\ DOMAIN trail = 1 .. Len(trail)
      /\ \A j \in 1 .. Len(control) : control[j] \in Nat
  BY DEF TypeOK, Level
<1>4. \A i \in DOMAIN trail : trail[i].level \in Nat
  BY TrailEntry DEF TypeOK
<1> HIDE DEF t, ctl
<1>5. \A j \in DOMAIN ctl : ctl[j] <= Len(t)
  <2> TAKE j \in DOMAIN ctl
  <2>1. j \in 1 .. k /\ ctl[j] = control[j] /\ control[j] <= Len(trail)
    BY <1>1, <1>3 DEF Shape
  <2>2. SUFFICES ASSUME control[j] > Height(k) PROVE FALSE
    BY <1>2, <1>3, <2>1
  <2>3. Height(k) + 1 \in DOMAIN trail
    BY <1>2, <1>3, <2>1, <2>2
  <2>4. trail[Height(k) + 1].level > k
    BY <1>2, <1>4, <2>3
  <2>5. control[j] < Height(k) + 1
    BY <1>3, <1>4, <2>1, <2>3, <2>4 DEF Shape
  <2> QED BY <1>2, <1>3, <2>1, <2>2, <2>5
<1>6. \A i \in DOMAIN t : t[i].level <= Len(ctl)
  BY <1>1, <1>2, <1>3
<1>7. \A j \in DOMAIN ctl : \A i \in DOMAIN t : ctl[j] < i <=> j <= t[i].level
  BY <1>1, <1>2, <1>3 DEF Shape
<1> QED BY <1>5, <1>6, <1>7 DEF Shape, t, ctl

LEMMA AssignedFacts ==
  ASSUME NEW t \in Seq(Entry), NEW l \in Lit, NEW k \in Nat, NEW c \in Clause
  PROVE  \E e \in Entry : /\ Assigned(t, l, k, c) = Append(t, e)
                          /\ e.lit = l /\ e.level = k
                          /\ e.reason = IF k = 0 THEN NoClause ELSE c
<1> DEFINE e == [lit |-> l, level |-> k, reason |-> IF k = 0 THEN NoClause ELSE c]
<1>1. e \in Entry
  BY NoClauseType DEF Entry
<1> WITNESS e \in Entry
<1> QED BY DEF Assigned

-----------------------------------------------------------------------------
(***************************************************************************)
(* Type correctness, with the shape of the trail.                          *)
(***************************************************************************)
ShapeOK == TypeOK /\ Shape(trail, control)

LEMMA DbClause == ASSUME TypeOK, NEW c \in db
                  PROVE  c \in Clause /\ c.lits \in SUBSET Lit /\ c.red \in BOOLEAN
BY DEF TypeOK, Clause

LEMMA ClauseLits == ASSUME NEW c \in Clause
                    PROVE  c.lits \in SUBSET Lit /\ c.red \in BOOLEAN
BY DEF Clause

LEMMA AntecedentType ==
  ASSUME TypeOK, NEW i \in DOMAIN trail
  PROVE  /\ Antecedent(i) \in SUBSET Lit /\ Resolved(i) \in SUBSET Lit
         /\ StrengthenedClause(i) \in Clause
<1>1. trail[i].reason \in Clause
  BY TrailEntry DEF TypeOK
<1>2. trail[i].reason.lits \in SUBSET Lit /\ trail[i].reason.red \in BOOLEAN
  BY <1>1, ClauseLits
<1>3. Antecedent(i) \in SUBSET Lit
  BY <1>2 DEF Antecedent
<1>4. (trail[i].reason.red /\ (Subsumes(i) => conflict.red)) \in BOOLEAN
  OBVIOUS
<1> QED BY <1>3, <1>4 DEF Resolved, TypeOK, StrengthenedClause, Clause

LEMMA StrengthenedDbType ==
  ASSUME TypeOK, NEW i \in DOMAIN trail
  PROVE  StrengthenedDb(i) \in SUBSET Clause
BY AntecedentType DEF StrengthenedDb, TypeOK

\* The two ways the trail changes: one more assignment on the current level, and
\* a jump that ends in one.
LEMMA AssignShape ==
  ASSUME ShapeOK, NEW l \in Lit, NEW c \in Clause,
         trail' = Assigned(trail, l, Level, c), control' = control
  PROVE  trail' \in Seq(Entry) /\ control' \in Seq(Nat) /\ Shape(trail, control)'
<1>1. trail \in Seq(Entry) /\ control \in Seq(Nat) /\ Level \in Nat
  BY DEF ShapeOK, TypeOK, Level
<1>2. PICK e \in Entry : trail' = Append(trail, e) /\ e.level = Level
  BY <1>1, AssignedFacts
<1>3. Shape(trail', control')
  BY <1>1, <1>2, AppendShape DEF ShapeOK, Level
<1> QED BY <1>1, <1>2, <1>3, AppendEntry

LEMMA JumpShape ==
  ASSUME ShapeOK, NEW k \in 0 .. Level, NEW l \in Lit, NEW c \in Clause,
         trail' = Assigned(Unwound(k), l, k, c), control' = SubSeq(control, 1, k)
  PROVE  trail' \in Seq(Entry) /\ control' \in Seq(Nat) /\ Shape(trail, control)'
<1>1. Unwound(k) \in Seq(Entry)
  BY UnwoundFacts DEF ShapeOK
<1>2. k \in Nat
  BY DEF ShapeOK, TypeOK, Level
<1>3. PICK e \in Entry : trail' = Append(Unwound(k), e) /\ e.level = k
  BY <1>1, <1>2, AssignedFacts
<1>4. control' \in Seq(Nat) /\ Len(control') = k
  BY ControlCut DEF ShapeOK
<1>5. Shape(Unwound(k), control')
  BY CutShape DEF ShapeOK
<1>6. Shape(trail', control')
  BY <1>1, <1>3, <1>4, <1>5, AppendShape
<1> QED BY <1>1, <1>3, <1>4, <1>6, AppendEntry

LEMMA ShapeInit == Init => ShapeOK
<1> SUFFICES ASSUME Init PROVE ShapeOK
  OBVIOUS
<1>1. 0 \in 0 .. Len(Formula)
  BY InputsAssumption DEF Init, Formula
<1> QED BY <1>1, NoClauseType DEF Init, ShapeOK, TypeOK, Shape

\* The CNF file stays.
LEMMA InputKept == ASSUME [Next]_vars PROVE input' = input
BY DEF Next, vars, Analyze, AddOriginalClause, Decide, PropagateUnit, PropagateConflict,
       Backtrack, RootConflict, StartAnalysis, ResolveReason, StrengthenReason,
       StrengthenAndForce, MinimizeStep, Learn

LEMMA ShapeStep == ShapeOK /\ [Next]_vars => ShapeOK'
<1> SUFFICES ASSUME ShapeOK, [Next]_vars PROVE ShapeOK'
  OBVIOUS
<1>0. /\ TypeOK /\ trail \in Seq(Entry) /\ control \in Seq(Nat) /\ Level \in Nat
      /\ Shape(trail, control)
  BY DEF ShapeOK, TypeOK, Level
<1>a. input' = input
  BY InputKept
<1>b. Formula' = Formula
  BY <1>a DEF Formula
<1>1. CASE AddOriginalClause
  <2> DEFINE c == Formula[added + 1]
             rest == {l \in c : ~RootFalse(l)}
  <2>1. added + 1 \in DOMAIN Formula /\ c \in SUBSET Lit /\ rest \in SUBSET Lit
    BY <1>0, <1>a, <1>b, <1>1, FormulaClause DEF AddOriginalClause, TypeOK
  <2>2. added' \in 0 .. Len(Formula)
    BY <1>0, <1>a, <1>b, <1>1, FormulaClause DEF AddOriginalClause, TypeOK
  <2>3. control' = control /\ UNCHANGED <<input, conflict, resolvent, first>>
    BY <1>1 DEF AddOriginalClause
  <2>4. phase' \in {"search", "analyze", "unsat"}
    BY <1>0, <1>a, <1>b, <1>1 DEF AddOriginalClause, TypeOK
  <2>5. db' \in SUBSET Clause
    <3>1. [lits |-> rest, red |-> FALSE] \in Clause
      BY <2>1 DEF Clause
    <3> QED BY <1>0, <1>a, <1>b, <1>1, <3>1 DEF AddOriginalClause, TypeOK
  <2>6. trail' \in Seq(Entry) /\ Shape(trail, control)'
    <3>1. CASE \E l \in rest : trail' = Assigned(trail, l, 0, NoClause)
      <4>1. PICK l \in Lit : trail' = Assigned(trail, l, Level, NoClause)
        BY <1>1, <2>1, <3>1 DEF AddOriginalClause
      <4> QED BY <2>3, <4>1, NoClauseType, AssignShape
    <3>2. CASE UNCHANGED trail
      BY <1>0, <1>a, <1>b, <2>3, <3>2
    <3> QED BY <1>1, <3>1, <3>2 DEF AddOriginalClause
  <2> QED BY <1>0, <1>a, <1>b, <2>2, <2>3, <2>4, <2>5, <2>6 DEF ShapeOK, TypeOK
<1>2. ASSUME NEW l \in Lit, Decide(l) PROVE ShapeOK'
  <2>1. PICK e \in Entry : trail' = Append(trail, e) /\ e.level = Level + 1
    <3> DEFINE e == [lit |-> l, level |-> Level + 1, reason |-> NoClause]
    <3>1. e \in Entry
      BY <1>0, <1>a, <1>b, NoClauseType DEF Entry
    <3> QED BY <1>2, <3>1 DEF Decide
  <2>2. control' = Append(control, Len(trail)) /\ Len(trail) \in Nat
    BY <1>0, <1>a, <1>b, <1>2 DEF Decide
  <2>3. Shape(trail', control')
    BY <1>0, <1>a, <1>b, <2>1, <2>2, DecideShape DEF Level
  <2>4. trail' \in Seq(Entry) /\ control' \in Seq(Nat)
    BY <1>0, <1>a, <1>b, <2>1, <2>2
  <2> QED BY <1>0, <1>a, <1>b, <1>2, <2>3, <2>4 DEF Decide, ShapeOK, TypeOK
<1>3. ASSUME NEW c \in db, NEW l \in Lit, PropagateUnit(c, l) PROVE ShapeOK'
  <2>1. c \in Clause
    BY <1>0, <1>a, <1>b, DbClause
  <2>2. trail' \in Seq(Entry) /\ control' \in Seq(Nat) /\ Shape(trail, control)'
    BY <1>3, <2>1, AssignShape DEF PropagateUnit
  <2> QED BY <1>0, <1>a, <1>b, <1>3, <2>2 DEF PropagateUnit, ShapeOK, TypeOK
<1>4. ASSUME NEW c \in db, PropagateConflict(c) PROVE ShapeOK'
  <2>1. c \in Clause
    BY <1>0, <1>a, <1>b, DbClause
  <2> QED BY <1>0, <1>a, <1>b, <1>4, <2>1 DEF PropagateConflict, ShapeOK, TypeOK
<1>5. ASSUME NEW k \in 0 .. Level, Backtrack(k) PROVE ShapeOK'
  <2>1. Shape(trail', control')
    BY <1>0, <1>a, <1>b, <1>5, CutShape DEF Backtrack
  <2>2. trail' \in Seq(Entry) /\ control' \in Seq(Nat)
    BY <1>0, <1>a, <1>b, <1>5, UnwoundFacts, ControlCut DEF Backtrack
  <2> QED BY <1>0, <1>a, <1>b, <1>5, <2>1, <2>2, NoClauseType DEF Backtrack, ShapeOK, TypeOK
<1>6. CASE RootConflict
  BY <1>0, <1>a, <1>b, <1>6 DEF RootConflict, ShapeOK, TypeOK
<1>7. CASE StartAnalysis
  <2>1. resolvent' \in SUBSET Lit
    BY <1>0, <1>a, <1>b, <1>7, ClauseLits DEF StartAnalysis, TypeOK
  <2> QED BY <1>0, <1>a, <1>b, <1>7, <2>1 DEF StartAnalysis, ShapeOK, TypeOK
<1>8. ASSUME NEW i \in DOMAIN trail, ResolveReason(i) PROVE ShapeOK'
  BY <1>0, <1>a, <1>b, <1>8, AntecedentType DEF ResolveReason, ShapeOK, TypeOK
<1>9. ASSUME NEW i \in DOMAIN trail, StrengthenReason(i) PROVE ShapeOK'
  BY <1>0, <1>a, <1>b, <1>9, AntecedentType, StrengthenedDbType DEF StrengthenReason, ShapeOK, TypeOK
<1>10. ASSUME NEW i \in DOMAIN trail, NEW forced \in Lit, NEW k \in 0 .. Level,
              StrengthenAndForce(i, forced, k)
       PROVE  ShapeOK'
  <2>1. trail' \in Seq(Entry) /\ control' \in Seq(Nat) /\ Shape(trail, control)'
    BY <1>0, <1>a, <1>b, <1>10, AntecedentType, JumpShape DEF StrengthenAndForce
  <2> QED BY <1>0, <1>a, <1>b, <1>10, <2>1, StrengthenedDbType, NoClauseType
          DEF StrengthenAndForce, ShapeOK, TypeOK
<1>11. ASSUME NEW i \in DOMAIN trail, NEW u \in DOMAIN trail, MinimizeStep(i, u)
       PROVE  ShapeOK'
  BY <1>0, <1>a, <1>b, <1>11, AntecedentType DEF MinimizeStep, ShapeOK, TypeOK
<1>12. ASSUME NEW i \in DOMAIN trail, NEW k \in 0 .. Level,
              NEW subsumed \in SUBSET {d \in db : d.red}, Learn(i, k, subsumed)
       PROVE  ShapeOK'
  <2> DEFINE driving == [lits |-> resolvent, red |-> TRUE]
  <2>1. driving \in Clause /\ -trail[i].lit \in Lit
    BY <1>0, <1>a, <1>b, TrailEntry, LitFacts DEF TypeOK, Clause
  <2>2. trail' = Assigned(Unwound(k), -trail[i].lit, k, driving)
    BY <1>12 DEF Learn
  <2>3. trail' \in Seq(Entry) /\ control' \in Seq(Nat) /\ Shape(trail, control)'
    BY <1>12, <2>1, <2>2, JumpShape DEF Learn
  <2>4. db' \in SUBSET Clause
    BY <1>0, <1>a, <1>b, <1>12, <2>1 DEF Learn, TypeOK
  <2> QED BY <1>0, <1>a, <1>b, <1>12, <2>3, <2>4, NoClauseType DEF Learn, ShapeOK, TypeOK
<1>13. CASE UNCHANGED vars
  BY <1>0, <1>a, <1>b, <1>13 DEF vars, ShapeOK, TypeOK, Shape
<1> QED BY <1>1, <1>2, <1>3, <1>4, <1>5, <1>6, <1>7, <1>8, <1>9, <1>10, <1>11, <1>12, <1>13
        DEF Next, Analyze

\* The solver's state is well typed, and the decision levels recorded on the
\* trail agree with the control stack backtrack cuts it by.
THEOREM TypeCorrect == Spec => []TypeOK
<1>1. ShapeOK => TypeOK
  BY DEF ShapeOK
<1> QED BY ShapeInit, ShapeStep, <1>1, PTL DEF Spec

-----------------------------------------------------------------------------
(***************************************************************************)
(* Soundness: what the solver derives holds in every model of the formula. *)
(***************************************************************************)
Entailed(c) == \A m \in Models : Satisfies(m, c)

TrailSound(t) ==
  \A i \in DOMAIN t : /\ t[i].level = 0 => Entailed({t[i].lit})
                      /\ t[i].reason # NoClause => Entailed(t[i].reason.lits)

SoundInv ==
  /\ ShapeOK
  /\ \A c \in db : Entailed(c.lits)
  /\ TrailSound(trail)
  /\ conflict # NoClause => Entailed(conflict.lits)
  /\ phase = "analyze" => Entailed(resolvent) /\ \A l \in resolvent : ~RootFalse(l)
  /\ phase = "search" /\ conflict # NoClause => IsConflicting(conflict)
  /\ phase = "unsat" => Models = {}

LEMMA ModelFacts ==
  ASSUME NEW m \in Models
  PROVE  m \in Assignments /\ \A i \in DOMAIN Formula : Satisfies(m, Formula[i])
BY DEF Models

LEMMA ModelConsistent ==
  ASSUME NEW m \in Models, NEW l \in Lit
  PROVE  l \in m => -l \notin m
<1>1. m \in Assignments
  BY ModelFacts
<1>2. PICK v \in Var : l = v \/ l = -v
  BY DEF Lit
<1>3. v \in Int /\ -(-v) = v
  BY VarAssumption
<1> QED BY <1>1, <1>2, <1>3 DEF Assignments

LEMMA EntailedUnit ==
  ASSUME NEW l, Entailed({l}), NEW m \in Models PROVE l \in m
BY DEF Entailed, Satisfies

\* The literals analysis drops because they are false on the root level are
\* false in every model.
LEMMA RootFalseInModels ==
  ASSUME TypeOK, TrailSound(trail), NEW l \in Lit, RootFalse(l), NEW m \in Models
  PROVE  l \notin m
<1>1. PICK i \in DOMAIN trail : trail[i].lit = -l /\ trail[i].level = 0
  BY DEF RootFalse, RootTrue
<1>2. -l \in m
  BY <1>1, EntailedUnit DEF TrailSound
<1> QED BY <1>2, ModelConsistent

LEMMA DropRootFalse ==
  ASSUME TypeOK, TrailSound(trail), NEW c \in SUBSET Lit, Entailed(c)
  PROVE  Entailed({l \in c : ~RootFalse(l)})
<1> SUFFICES ASSUME NEW m \in Models PROVE Satisfies(m, {l \in c : ~RootFalse(l)})
  BY DEF Entailed
<1>1. PICK l \in c : l \in m
  BY DEF Entailed, Satisfies
<1>2. ~RootFalse(l)
  BY <1>1, RootFalseInModels
<1> QED BY <1>1, <1>2 DEF Satisfies

\* A resolution step of analyze or of minimisation keeps the clause entailed.
LEMMA ResolvedEntailed ==
  ASSUME TypeOK, TrailSound(trail), NEW i \in DOMAIN trail,
         trail[i].reason # NoClause, Entailed(resolvent)
  PROVE  Entailed(Resolved(i))
<1> DEFINE l == trail[i].lit
           r == trail[i].reason.lits
<1>1. l \in Lit /\ r \in SUBSET Lit /\ Entailed(r)
  BY TrailEntry, ClauseLits DEF TypeOK, TrailSound
<1> SUFFICES ASSUME NEW m \in Models PROVE Satisfies(m, Resolved(i))
  BY DEF Entailed
<1>2. PICK a \in resolvent : a \in m
  BY DEF Entailed, Satisfies
<1>3. PICK b \in r : b \in m
  BY <1>1 DEF Entailed, Satisfies
<1>4. CASE a # -l
  BY <1>2, <1>4 DEF Satisfies, Resolved
<1>5. CASE a = -l
  <2>1. b # l
    BY <1>1, <1>2, <1>3, <1>5, ModelConsistent
  <2>2. ~RootFalse(b)
    BY <1>1, <1>3, RootFalseInModels
  <2>3. b \in Antecedent(i)
    BY <1>3, <2>1, <2>2 DEF Antecedent
  <2> QED BY <1>3, <2>3 DEF Satisfies, Resolved
<1> QED BY <1>4, <1>5

LEMMA ResolvedNonRoot ==
  ASSUME NEW i \in DOMAIN trail, \A l \in resolvent : ~RootFalse(l)
  PROVE  \A l \in Resolved(i) : ~RootFalse(l)
BY DEF Resolved, Antecedent

\* Trails stay sound under an assignment with a sound reason, and under a cut.
LEMMA AssignSound ==
  ASSUME NEW t \in Seq(Entry), TrailSound(t), NEW l \in Lit, NEW k \in Nat,
         NEW c \in Clause, k = 0 => Entailed({l}), k # 0 => Entailed(c.lits)
  PROVE  TrailSound(Assigned(t, l, k, c))
<1>1. PICK e \in Entry : /\ Assigned(t, l, k, c) = Append(t, e)
                         /\ e.lit = l /\ e.level = k
                         /\ e.reason = IF k = 0 THEN NoClause ELSE c
  BY AssignedFacts
<1> DEFINE u == Append(t, e)
<1>2. /\ DOMAIN u = DOMAIN t \cup {Len(t) + 1}
      /\ \A i \in DOMAIN t : u[i] = t[i]
      /\ u[Len(t) + 1] = e
  BY AppendEntry
<1> HIDE DEF u
<1>3. TrailSound(u)
  BY <1>1, <1>2 DEF TrailSound
<1> QED BY <1>1, <1>3 DEF u

LEMMA CutSound ==
  ASSUME ShapeOK, TrailSound(trail), NEW k \in 0 .. Level
  PROVE  TrailSound(Unwound(k)) /\ Unwound(k) \in Seq(Entry)
<1>1. /\ Unwound(k) \in Seq(Entry)
      /\ DOMAIN Unwound(k) \subseteq DOMAIN trail
      /\ \A i \in DOMAIN Unwound(k) : Unwound(k)[i] = trail[i]
  <2>1. /\ Height(k) \in 0 .. Len(trail)
        /\ Unwound(k) \in Seq(Entry)
        /\ Len(Unwound(k)) = Height(k)
        /\ \A i \in 1 .. Height(k) : Unwound(k)[i] = trail[i]
    BY UnwoundFacts DEF ShapeOK
  <2>2. trail \in Seq(Entry)
    BY DEF ShapeOK, TypeOK
  <2> QED BY <2>1, <2>2
<1> QED BY <1>1 DEF TrailSound

\* On the root level every falsified literal is false in every model.
LEMMA RootLevelFalse ==
  ASSUME ShapeOK, Level = 0, NEW l, IsFalse(l) PROVE RootFalse(l)
<1>1. PICK i \in DOMAIN trail : trail[i].lit = -l
  BY DEF IsFalse, TrueLits
<1>2. trail[i].level \in Nat /\ trail[i].level <= 0
  BY TrailEntry DEF ShapeOK, TypeOK, Shape, Level
<1> QED BY <1>1, <1>2 DEF RootFalse, RootTrue

LEMMA SoundInit == Init => SoundInv
<1> SUFFICES ASSUME Init PROVE SoundInv
  OBVIOUS
<1>1. ShapeOK
  BY ShapeInit
<1> QED BY <1>1 DEF Init, SoundInv, TrailSound

LEMMA StrengthenedEntailed ==
  ASSUME SoundInv, phase = "analyze", NEW i \in DOMAIN trail,
         trail[i].reason # NoClause, Strengthens(i)
  PROVE  /\ Entailed(Antecedent(i))
         /\ \A c \in StrengthenedDb(i) : Entailed(c.lits)
<1>1. Entailed(Antecedent(i))
  BY ResolvedEntailed DEF SoundInv, ShapeOK, Strengthens
<1> QED BY <1>1 DEF StrengthenedDb, StrengthenedClause, SoundInv

\* A jump never ends on the root level unless the driving clause is a unit.
LEMMA JumpAboveRoot ==
  ASSUME NEW c, NEW forced, NEW k, JumpLevel(c, forced, k),
         \A l \in c : ~RootFalse(l), c # {forced}
  PROVE  k # 0
<1> SUFFICES ASSUME k = 0 PROVE FALSE
  OBVIOUS
<1>1. PICK o \in c \ {forced} : AssignedAt(o, 0)
  BY DEF JumpLevel
<1> QED BY <1>1 DEF AssignedAt, RootFalse, RootTrue

LEMMA SoundStep == SoundInv /\ [Next]_vars => SoundInv'
<1> SUFFICES ASSUME SoundInv, [Next]_vars PROVE SoundInv'
  OBVIOUS
<1>0. /\ ShapeOK /\ ShapeOK' /\ TypeOK /\ trail \in Seq(Entry) /\ Level \in Nat
      /\ TrailSound(trail)
      /\ \A c \in db : Entailed(c.lits)
  BY ShapeStep DEF SoundInv, ShapeOK, TypeOK, Level
<1> DEFINE SoundNext ==
      /\ ShapeOK'
      /\ \A c \in db' : Entailed(c.lits)
      /\ TrailSound(trail')
      /\ conflict' # NoClause => Entailed(conflict'.lits)
      /\ phase' = "analyze" => Entailed(resolvent') /\ \A l \in resolvent' : ~RootFalse(l)'
      /\ phase' = "search" /\ conflict' # NoClause => IsConflicting(conflict)'
      /\ phase' = "unsat" => Models = {}
<1>a. SUFFICES SoundNext
  <2>1. Models' = Models
    BY InputKept DEF Models, Formula
  <2>2. ASSUME NEW c PROVE Entailed(c)' = Entailed(c)
    BY <2>1 DEF Entailed
  <2>3. TrailSound(trail)' = TrailSound(trail')
    BY <2>1 DEF TrailSound, Entailed
  <2> QED BY <2>1, <2>3 DEF SoundInv, Entailed
<1>1. CASE AddOriginalClause
  <2> DEFINE c == Formula[added + 1]
             rest == {l \in c : ~RootFalse(l)}
  <2>1. added + 1 \in DOMAIN Formula /\ c \in SUBSET Lit /\ rest \in SUBSET Lit
    BY <1>0, <1>1, FormulaClause DEF AddOriginalClause, TypeOK
  <2>2. Entailed(c)
    BY <1>0, <2>1, ModelFacts DEF Entailed
  <2>3. Entailed(rest)
    BY <1>0, <2>1, <2>2, DropRootFalse
  <2>4. UNCHANGED <<control, conflict, resolvent, first>> /\ conflict = NoClause
        /\ phase = "search"
    BY <1>1 DEF AddOriginalClause, Searching
  <2>5. CASE UNCHANGED <<db, trail, phase>>
    BY <1>0, <2>4, <2>5 DEF SoundInv
  <2>6. CASE rest = {} /\ phase' = "unsat" /\ UNCHANGED <<db, trail>>
    <3>1. Models = {}
      BY <2>3, <2>6 DEF Entailed, Satisfies
    <3> QED BY <1>0, <2>4, <2>6, <3>1 DEF SoundInv
  <2>7. ASSUME NEW l \in rest, rest = {l}, trail' = Assigned(trail, l, 0, NoClause),
               UNCHANGED <<db, phase>>
        PROVE  SoundNext
    <3>1. TrailSound(trail')
      BY <1>0, <2>1, <2>3, <2>7, AssignSound, NoClauseType
    <3> QED BY <1>0, <2>4, <2>7, <3>1 DEF SoundInv
  <2>8. CASE db' = db \cup {[lits |-> rest, red |-> FALSE]} /\ UNCHANGED <<trail, phase>>
    <3>1. \A d \in db' : Entailed(d.lits)
      <4> HIDE DEF rest
      <4> QED BY <1>0, <2>3, <2>8
    <3> QED BY <1>0, <2>4, <2>8, <3>1 DEF SoundInv
  <2> QED BY <1>1, <2>5, <2>6, <2>7, <2>8 DEF AddOriginalClause
<1>2. ASSUME NEW l \in Lit, Decide(l) PROVE SoundNext
  <2> DEFINE e == [lit |-> l, level |-> Level + 1, reason |-> NoClause]
             t == Append(trail, e)
  <2>1. e \in Entry
    BY <1>0, NoClauseType DEF Entry
  <2>2. /\ DOMAIN t = DOMAIN trail \cup {Len(trail) + 1}
        /\ \A i \in DOMAIN trail : t[i] = trail[i]
        /\ t[Len(trail) + 1] = e
    BY <1>0, <2>1, AppendEntry
  <2>3. e.level # 0 /\ e.reason = NoClause
    BY <1>0
  <2> HIDE DEF t, e
  <2>4. TrailSound(t)
    BY <1>0, <2>2, <2>3 DEF TrailSound
  <2>5. trail' = t /\ conflict' = NoClause /\ phase' = "search" /\ db' = db
    BY <1>2 DEF Decide, Searching, t, e
  <2> QED BY <1>0, <2>4, <2>5 DEF SoundInv
<1>3. ASSUME NEW c \in db, NEW l \in Lit, PropagateUnit(c, l) PROVE SoundNext
  <2>1. c \in Clause /\ c.lits \in SUBSET Lit /\ Entailed(c.lits)
    BY <1>0, DbClause
  <2>2. ASSUME Level = 0 PROVE Entailed({l})
    <3>1. l \in c.lits /\ \A o \in c.lits \ {l} : RootFalse(o)
      BY <1>0, <1>3, <2>2, RootLevelFalse DEF PropagateUnit, IsUnit
    <3> SUFFICES ASSUME NEW m \in Models PROVE l \in m
      BY DEF Entailed, Satisfies
    <3>2. PICK b \in c.lits : b \in m
      BY <2>1 DEF Entailed, Satisfies
    <3> QED BY <1>0, <2>1, <3>1, <3>2, RootFalseInModels
  <2>3. TrailSound(trail')
    BY <1>0, <1>3, <2>1, <2>2, AssignSound DEF PropagateUnit
  <2>4. conflict' = NoClause /\ phase' = "search" /\ db' = db
    BY <1>3 DEF PropagateUnit, Searching
  <2> QED BY <1>0, <2>3, <2>4 DEF SoundInv
<1>4. ASSUME NEW c \in db, PropagateConflict(c) PROVE SoundNext
  <2>1. IsConflicting(c)'
    BY <1>4 DEF PropagateConflict, IsConflicting, IsFalse, TrueLits
  <2> QED BY <1>0, <1>4, <2>1 DEF PropagateConflict, Searching, SoundInv
<1>5. ASSUME NEW k \in 0 .. Level, Backtrack(k) PROVE SoundNext
  <2>1. TrailSound(trail')
    BY <1>0, <1>5, CutSound DEF Backtrack
  <2> QED BY <1>0, <1>5, <2>1 DEF Backtrack, SoundInv
<1>6. CASE RootConflict
  <2>1. conflict # NoClause /\ IsConflicting(conflict) /\ Entailed(conflict.lits)
    BY <1>6 DEF RootConflict, SoundInv
  <2>2. conflict.lits \in SUBSET Lit
    BY <1>0, ClauseLits DEF TypeOK
  <2>3. \A l \in conflict.lits : RootFalse(l)
    BY <1>0, <1>6, <2>1, RootLevelFalse DEF RootConflict, IsConflicting
  <2>4. ASSUME NEW m \in Models PROVE FALSE
    <3>1. PICK l \in conflict.lits : l \in m
      BY <2>1 DEF Entailed, Satisfies
    <3> QED BY <1>0, <2>2, <2>3, <3>1, RootFalseInModels
  <2>5. Models = {}
    BY <2>4
  <2> QED BY <1>0, <1>6, <2>5 DEF RootConflict, SoundInv
<1>7. CASE StartAnalysis
  <2>1. conflict.lits \in SUBSET Lit /\ Entailed(conflict.lits)
    BY <1>0, <1>7, ClauseLits DEF TypeOK, StartAnalysis, SoundInv
  <2>2. Entailed(resolvent')
    BY <1>0, <1>7, <2>1, DropRootFalse DEF StartAnalysis
  <2>3. \A l \in resolvent' : RootFalse(l)' = FALSE
    BY <1>7 DEF StartAnalysis, RootFalse, RootTrue
  <2> QED BY <1>0, <1>7, <2>2, <2>3 DEF StartAnalysis, SoundInv
<1>8. ASSUME NEW i \in DOMAIN trail, ResolveReason(i) PROVE SoundNext
  <2>1. Entailed(resolvent')
    BY <1>0, <1>8, ResolvedEntailed DEF ResolveReason, SoundInv
  <2>2. \A l \in resolvent' : ~RootFalse(l)'
    BY <1>8, ResolvedNonRoot DEF ResolveReason, RootFalse, RootTrue, SoundInv
  <2> QED BY <1>0, <1>8, <2>1, <2>2 DEF ResolveReason, SoundInv
<1>9. ASSUME NEW i \in DOMAIN trail, StrengthenReason(i) PROVE SoundNext
  <2>1. Entailed(Antecedent(i)) /\ \A c \in StrengthenedDb(i) : Entailed(c.lits)
    BY <1>9, StrengthenedEntailed DEF StrengthenReason
  <2>2. conflict'.lits = Antecedent(i) /\ resolvent' = Antecedent(i) /\ trail' = trail
        /\ db' = StrengthenedDb(i) /\ phase' = "analyze"
    BY <1>9 DEF StrengthenReason, StrengthenedClause
  <2>3. \A l \in resolvent' : ~RootFalse(l)'
    BY <2>2 DEF Antecedent, RootFalse, RootTrue
  <2> QED BY <1>0, <2>1, <2>2, <2>3 DEF SoundInv
<1>10. ASSUME NEW i \in DOMAIN trail, NEW forced \in Lit, NEW k \in 0 .. Level,
              StrengthenAndForce(i, forced, k)
       PROVE  SoundNext
  <2>1. Entailed(Antecedent(i)) /\ \A c \in StrengthenedDb(i) : Entailed(c.lits)
    BY <1>10, StrengthenedEntailed DEF StrengthenAndForce
  <2>2. \A l \in Antecedent(i) : ~RootFalse(l)
    BY DEF Antecedent
  <2>3. Antecedent(i) # {forced}
    BY <1>10 DEF StrengthenAndForce, Strengthens
  <2>4. k # 0 /\ k \in Nat
    BY <1>0, <1>10, <2>2, <2>3, JumpAboveRoot DEF StrengthenAndForce
  <2>5. StrengthenedClause(i) \in Clause /\ StrengthenedClause(i).lits = Antecedent(i)
    BY <1>0, AntecedentType DEF StrengthenedClause
  <2>6. TrailSound(trail')
    BY <1>0, <1>10, <2>1, <2>4, <2>5, CutSound, AssignSound DEF StrengthenAndForce
  <2>7. conflict' = NoClause /\ phase' = "search" /\ db' = StrengthenedDb(i)
    BY <1>10 DEF StrengthenAndForce
  <2> QED BY <1>0, <2>1, <2>6, <2>7 DEF SoundInv
<1>11. ASSUME NEW i \in DOMAIN trail, NEW u \in DOMAIN trail, MinimizeStep(i, u)
       PROVE  SoundNext
  <2>1. Entailed(resolvent')
    BY <1>0, <1>11, ResolvedEntailed DEF MinimizeStep, SoundInv
  <2>2. \A l \in resolvent' : ~RootFalse(l)'
    BY <1>11, ResolvedNonRoot DEF MinimizeStep, RootFalse, RootTrue, SoundInv
  <2> QED BY <1>0, <1>11, <2>1, <2>2 DEF MinimizeStep, SoundInv
<1>12. ASSUME NEW i \in DOMAIN trail, NEW k \in 0 .. Level,
              NEW subsumed \in SUBSET {d \in db : d.red}, Learn(i, k, subsumed)
       PROVE  SoundNext
  <2> DEFINE driving == [lits |-> resolvent, red |-> TRUE]
             l == -trail[i].lit
  <2>1. driving \in Clause /\ l \in Lit /\ Entailed(resolvent)
    BY <1>0, <1>12, TrailEntry, LitFacts DEF TypeOK, Clause, Learn, SoundInv
  <2>2. k = 0 => Entailed({l})
    BY <1>12, <2>1, JumpAboveRoot DEF Learn, SoundInv
  <2>3. k \in Nat
    BY <1>0
  <2>4. TrailSound(trail')
    BY <1>0, <1>12, <2>1, <2>2, <2>3, CutSound, AssignSound DEF Learn
  <2>5. conflict' = NoClause /\ phase' = "search"
    BY <1>12 DEF Learn
  <2>6. \A c \in db' : Entailed(c.lits)
    BY <1>0, <1>12, <2>1 DEF Learn
  <2> QED BY <1>0, <2>4, <2>5, <2>6 DEF SoundInv
<1>13. CASE UNCHANGED vars
  BY <1>0, <1>13 DEF vars, SoundInv, IsConflicting, IsFalse, TrueLits, RootFalse, RootTrue
<1> QED BY <1>1, <1>2, <1>3, <1>4, <1>5, <1>6, <1>7, <1>8, <1>9, <1>10, <1>11, <1>12, <1>13
        DEF Next, Analyze

LEMMA SoundInvImplies == SoundInv => Sound /\ UnsatCorrect
<1> SUFFICES ASSUME SoundInv PROVE Sound /\ UnsatCorrect
  OBVIOUS
<1>1. \A l \in RootUnits : Entailed({l})
  BY DEF RootUnits, RootTrue, SoundInv, TrailSound
<1>2. ASSUME NEW m \in Models PROVE RootUnits \subseteq m
  BY <1>1, EntailedUnit
<1>3. Sound
  BY <1>2 DEF Sound, SoundInv, Entailed
<1> QED BY <1>3 DEF UnsatCorrect, SoundInv

\* Every clause either solver keeps, learns or strengthens follows from the
\* formula, whatever the order of propagation, decisions and minimisation.
THEOREM Soundness == Spec => []Sound
BY SoundInit, SoundStep, SoundInvImplies, PTL DEF Spec

\* The answer UNSAT is right for every formula.
THEOREM UnsatSoundness == Spec => []UnsatCorrect
BY SoundInit, SoundStep, SoundInvImplies, PTL DEF Spec


-----------------------------------------------------------------------------
(***************************************************************************)
(* The invariant.  Consistent: no variable is assigned twice.  Reasons:    *)
(* a decision opens its level, and a reason is falsified but for its       *)
(* literal.  Clean: when the decision of a level was made, no clause kept  *)
(* now was unit or conflicting.                                            *)
(***************************************************************************)
Consistent(t) ==
  \A i, j \in DOMAIN t : t[i].lit # -t[j].lit /\ (t[i].lit = t[j].lit => i = j)

Falsified(t, o, i, k) == \E j \in DOMAIN t : j < i /\ t[j].lit = -o /\ t[j].level <= k
Reasoned(t, ctl, i) ==
  IF t[i].reason = NoClause
    THEN t[i].level = 0 \/ ctl[t[i].level] = i - 1
    ELSE /\ t[i].lit \in t[i].reason.lits
         /\ \A o \in t[i].reason.lits \ {t[i].lit} : Falsified(t, o, i, t[i].level)
Reasons(t, ctl) == \A i \in DOMAIN t : Reasoned(t, ctl, i)

\* l is true, or false, on a level below k.
LowTrue(t, l, k) == \E i \in DOMAIN t : t[i].lit = l /\ t[i].level < k
LowFalse(t, l, k) == LowTrue(t, -l, k)
CleanAt(t, c, k) ==
  \/ \E l \in c : LowTrue(t, l, k)
  \/ \E l, o \in c : l # o /\ ~LowFalse(t, l, k) /\ ~LowFalse(t, o, k)
Clean(t, n, D) == \A k \in 1 .. n, c \in D : CleanAt(t, c.lits, k)

TrailInv ==
  /\ ShapeOK
  /\ Consistent(trail)
  /\ Reasons(trail, control)
  /\ Clean(trail, Level, db)

AnalysisInv ==
  /\ phase = "search" /\ conflict # NoClause => conflict \in db /\ IsConflicting(conflict)
  /\ phase = "analyze" =>
       /\ \A l \in resolvent : \E i \in DOMAIN trail : trail[i].lit = -l /\ trail[i].level > 0
       /\ Open # {}
       /\ first => resolvent \subseteq conflict.lits \/ \E u \in DOMAIN trail : OnlyOpen(u)

-----------------------------------------------------------------------------
(***************************************************************************)
(* The ways a trail changes.                                               *)
(***************************************************************************)
\* One more literal, on the current level or with a new decision.
LEMMA AppendConsistent ==
  ASSUME NEW t \in Seq(Entry), Consistent(t), NEW e \in Entry,
         \A i \in DOMAIN t : t[i].lit # e.lit /\ t[i].lit # -e.lit
  PROVE  Consistent(Append(t, e))
<1> DEFINE u == Append(t, e)
<1>1. /\ DOMAIN u = DOMAIN t \cup {Len(t) + 1}
      /\ \A i \in DOMAIN t : u[i] = t[i]
      /\ u[Len(t) + 1] = e
  BY AppendEntry
<1>2. e.lit \in Lit /\ e.lit # -e.lit /\ -(-e.lit) = e.lit
  BY LitFacts DEF Entry
<1>3. \A i \in DOMAIN t : t[i].lit \in Lit /\ -(-t[i].lit) = t[i].lit
  BY TrailEntry, LitFacts
<1> HIDE DEF u
<1>4. Consistent(u)
  <2> SUFFICES ASSUME NEW i \in DOMAIN u, NEW j \in DOMAIN u
               PROVE  u[i].lit # -u[j].lit /\ (u[i].lit = u[j].lit => i = j)
    BY DEF Consistent
  <2>1. CASE i \in DOMAIN t /\ j \in DOMAIN t
    BY <1>1, <2>1 DEF Consistent
  <2>2. CASE i \in DOMAIN t /\ j = Len(t) + 1
    BY <1>1, <2>2
  <2>3. CASE i = Len(t) + 1 /\ j \in DOMAIN t
    <3>1. u[i].lit = e.lit /\ u[j].lit = t[j].lit
      BY <1>1, <2>3
    <3>2. t[j].lit # e.lit /\ t[j].lit # -e.lit
      BY <2>3
    <3>3. e.lit # -t[j].lit
      BY <1>2, <1>3, <2>3, <3>2
    <3> QED BY <3>1, <3>2, <3>3
  <2>4. CASE i = Len(t) + 1 /\ j = Len(t) + 1
    BY <1>1, <1>2, <2>4
  <2> QED BY <1>1, <2>1, <2>2, <2>3, <2>4
<1> QED BY <1>4 DEF u

LEMMA AppendReasons ==
  ASSUME NEW t \in Seq(Entry), NEW ctl, Reasons(t, ctl), NEW e \in Entry, NEW ctl2,
         \A i \in DOMAIN t : t[i].level # 0 => ctl2[t[i].level] = ctl[t[i].level],
         e.reason = NoClause => e.level = 0 \/ ctl2[e.level] = Len(t),
         e.reason # NoClause =>
           /\ e.lit \in e.reason.lits
           /\ \A o \in e.reason.lits \ {e.lit} :
                \E j \in DOMAIN t : t[j].lit = -o /\ t[j].level <= e.level
  PROVE  Reasons(Append(t, e), ctl2)
<1> DEFINE u == Append(t, e)
<1>1. /\ DOMAIN u = DOMAIN t \cup {Len(t) + 1}
      /\ \A i \in DOMAIN t : u[i] = t[i]
      /\ u[Len(t) + 1] = e
      /\ Len(t) \in Nat /\ \A i \in DOMAIN t : i \in Nat /\ i < Len(t) + 1
  BY AppendEntry
<1> HIDE DEF u
<1>2. ASSUME NEW i \in DOMAIN t PROVE Reasoned(u, ctl2, i)
  <2>1. u[i] = t[i] /\ Reasoned(t, ctl, i)
    BY <1>1 DEF Reasons
  <2>2. \A o, k : Falsified(t, o, i, k) => Falsified(u, o, i, k)
    BY <1>1 DEF Falsified
  <2> QED BY <2>1, <2>2 DEF Reasoned
<1>3. Reasoned(u, ctl2, Len(t) + 1)
  <2>1. \A o, k : (\E j \in DOMAIN t : t[j].lit = -o /\ t[j].level <= k)
                    => Falsified(u, o, Len(t) + 1, k)
    BY <1>1 DEF Falsified
  <2> QED BY <1>1, <2>1 DEF Reasoned
<1> QED BY <1>1, <1>2, <1>3 DEF Reasons, u

\* What is true below level k does not change above it.
LEMMA AppendLow ==
  ASSUME NEW t \in Seq(Entry), NEW e \in Entry, NEW k \in Nat, k <= e.level, NEW l
  PROVE  LowTrue(Append(t, e), l, k) <=> LowTrue(t, l, k)
<1>1. e.level \in Nat
  BY DEF Entry
<1> QED BY <1>1, AppendEntry DEF LowTrue

LEMMA CutLow ==
  ASSUME ShapeOK, NEW n \in 0 .. Level, NEW k \in Nat, k <= n, NEW l
  PROVE  LowTrue(Unwound(n), l, k) <=> LowTrue(trail, l, k)
<1>1. /\ Height(n) \in 0 .. Len(trail)
      /\ DOMAIN Unwound(n) = 1 .. Height(n)
      /\ \A i \in 1 .. Height(n) : Unwound(n)[i] = trail[i]
      /\ \A i \in DOMAIN trail : i <= Height(n) <=> trail[i].level <= n
  BY UnwoundFacts DEF ShapeOK
<1>2. /\ trail \in Seq(Entry) /\ DOMAIN trail = 1 .. Len(trail) /\ Len(trail) \in Nat
      /\ n \in Nat /\ \A i \in DOMAIN trail : trail[i].level \in Nat
  BY TrailEntry DEF ShapeOK, TypeOK, Level
<1>3. \A i \in DOMAIN trail : trail[i].level < k => i \in 1 .. Height(n)
  BY <1>1, <1>2
<1>4. \A i \in 1 .. Height(n) : i \in DOMAIN trail
  BY <1>1, <1>2
<1> QED BY <1>1, <1>3, <1>4 DEF LowTrue

LEMMA SameLowClean ==
  ASSUME NEW t, NEW u, NEW c, NEW k, \A l : LowTrue(u, l, k) <=> LowTrue(t, l, k), CleanAt(t, c, k)
  PROVE  CleanAt(u, c, k)
BY DEF CleanAt, LowFalse

LEMMA NotLow ==
  ASSUME TypeOK, Consistent(trail), NEW n \in Nat, NEW k \in Nat, k <= n, NEW l, AssignedAt(l, n)
  PROVE  ~LowFalse(trail, l, k)
<1> SUFFICES ASSUME LowFalse(trail, l, k) PROVE FALSE
  OBVIOUS
<1>1. PICK i \in DOMAIN trail : trail[i].lit = -l /\ trail[i].level < k
  BY DEF LowFalse, LowTrue
<1>2. PICK j \in DOMAIN trail : trail[j].lit = -l /\ trail[j].level = n
  BY DEF AssignedAt
<1>3. i = j
  BY <1>1, <1>2 DEF Consistent
<1> QED BY <1>1, <1>2, <1>3

LEMMA CutTrail ==
  ASSUME ShapeOK, Consistent(trail), Reasons(trail, control), NEW k \in 0 .. Level
  PROVE  /\ Consistent(Unwound(k))
         /\ Reasons(Unwound(k), SubSeq(control, 1, k))
         /\ \A i \in DOMAIN Unwound(k) : Unwound(k)[i].level # 0 =>
              SubSeq(control, 1, k)[Unwound(k)[i].level] = control[Unwound(k)[i].level]
<1> DEFINE t == Unwound(k)
           ctl == SubSeq(control, 1, k)
<1>1. /\ Height(k) \in 0 .. Len(trail)
      /\ DOMAIN t = 1 .. Height(k)
      /\ \A i \in 1 .. Height(k) : t[i] = trail[i]
      /\ \A i \in DOMAIN trail : i <= Height(k) <=> trail[i].level <= k
  BY UnwoundFacts DEF ShapeOK
<1>2. /\ DOMAIN trail = 1 .. Len(trail) /\ Len(trail) \in Nat
      /\ k \in Nat /\ \A i \in DOMAIN trail : trail[i].level \in Nat
  BY TrailEntry DEF ShapeOK, TypeOK, Level
<1>3. \A j \in 1 .. k : ctl[j] = control[j]
  BY ControlCut DEF ShapeOK
<1>4. \A i \in DOMAIN t : i \in DOMAIN trail /\ t[i] = trail[i] /\ t[i].level <= k /\ t[i].level \in Nat
  BY <1>1, <1>2
<1> HIDE DEF t, ctl
<1>5. Consistent(t)
  BY <1>4 DEF Consistent
<1>6. \A i \in DOMAIN t : t[i].level # 0 => ctl[t[i].level] = control[t[i].level]
  BY <1>2, <1>3, <1>4
<1>7. ASSUME NEW i \in DOMAIN t PROVE Reasoned(t, ctl, i)
  <2>1. t[i] = trail[i] /\ Reasoned(trail, control, i)
    BY <1>4 DEF Reasons
  <2>2. \A o, n : Falsified(trail, o, i, n) => Falsified(t, o, i, n)
    <3> SUFFICES ASSUME NEW o, NEW n, Falsified(trail, o, i, n) PROVE Falsified(t, o, i, n)
      OBVIOUS
    <3>1. PICK j \in DOMAIN trail : j < i /\ trail[j].lit = -o /\ trail[j].level <= n
      BY DEF Falsified
    <3>2. j \in DOMAIN t
      BY <1>1, <1>2, <3>1
    <3> QED BY <1>4, <3>1, <3>2 DEF Falsified
  <2> QED BY <1>6, <2>1, <2>2 DEF Reasoned
<1> QED BY <1>5, <1>6, <1>7 DEF Reasons, t, ctl

-----------------------------------------------------------------------------
(***************************************************************************)
(* One assignment on the current level, and a jump that ends in one.       *)
(***************************************************************************)
TrailOK(t, ctl, D) == Consistent(t) /\ Reasons(t, ctl) /\ Clean(t, Len(ctl), D)

LEMMA AssignTrail ==
  ASSUME TrailInv, NEW l \in Lit, NEW c \in Clause, Undefined(l),
         Level # 0 => c # NoClause /\ l \in c.lits /\ \A o \in c.lits \ {l} : IsFalse(o),
         trail' = Assigned(trail, l, Level, c), control' = control
  PROVE  TrailOK(trail', control', db)
<1>1. /\ ShapeOK /\ TypeOK /\ trail \in Seq(Entry) /\ control \in Seq(Nat) /\ Level \in Nat
      /\ Level = Len(control)
      /\ Consistent(trail) /\ Reasons(trail, control) /\ Clean(trail, Level, db)
  BY DEF TrailInv, ShapeOK, TypeOK, Level
<1>2. PICK e \in Entry : /\ trail' = Append(trail, e) /\ e.lit = l /\ e.level = Level
                         /\ e.reason = IF Level = 0 THEN NoClause ELSE c
  BY <1>1, AssignedFacts
<1>3. Consistent(trail')
  <2>1. \A i \in DOMAIN trail : trail[i].lit # e.lit /\ trail[i].lit # -e.lit
    BY <1>2 DEF Undefined, TrueLits
  <2> QED BY <1>1, <1>2, <2>1, AppendConsistent
<1>4. Reasons(trail', control')
  <2>1. e.reason # NoClause =>
           /\ e.lit \in e.reason.lits
           /\ \A o \in e.reason.lits \ {e.lit} :
                \E j \in DOMAIN trail : trail[j].lit = -o /\ trail[j].level <= e.level
    <3> SUFFICES ASSUME e.reason # NoClause
                 PROVE  /\ e.lit \in e.reason.lits
                        /\ \A o \in e.reason.lits \ {e.lit} :
                             \E j \in DOMAIN trail : trail[j].lit = -o /\ trail[j].level <= e.level
      OBVIOUS
    <3>1. Level # 0 /\ e.reason = c /\ l \in c.lits
      BY <1>2
    <3>2. ASSUME NEW o \in c.lits \ {l}
          PROVE  \E j \in DOMAIN trail : trail[j].lit = -o /\ trail[j].level <= Level
      <4>1. PICK j \in DOMAIN trail : trail[j].lit = -o
        BY <3>1, <3>2 DEF IsFalse, TrueLits
      <4>2. trail[j].level <= Level
        BY <1>1, <4>1 DEF ShapeOK, Shape
      <4> QED BY <4>1, <4>2
    <3> QED BY <1>2, <3>1, <3>2
  <2>2. e.reason = NoClause => e.level = 0
    BY <1>2
  <2> QED BY <1>1, <1>2, <2>1, <2>2, AppendReasons
<1>5. Clean(trail', Len(control'), db)
  <2> SUFFICES ASSUME NEW k \in 1 .. Level, NEW d \in db PROVE CleanAt(trail', d.lits, k)
    BY <1>1 DEF Clean
  <2>1. k \in Nat /\ k <= e.level
    BY <1>1, <1>2
  <2>2. ASSUME NEW o PROVE LowTrue(trail', o, k) <=> LowTrue(trail, o, k)
    <3>1. LowTrue(Append(trail, e), o, k) <=> LowTrue(trail, o, k)
      BY <1>1, <2>1, AppendLow
    <3> QED BY <1>2, <3>1
  <2>3. CleanAt(trail, d.lits, k)
    BY <1>1 DEF Clean
  <2> QED BY <2>2, <2>3, SameLowClean
<1> QED BY <1>3, <1>4, <1>5 DEF TrailOK

LEMMA JumpTrail ==
  ASSUME TrailInv, NEW k \in 0 .. Level, k < Level, NEW l \in Lit, NEW c \in Clause,
         AssignedAt(l, Level),
         k # 0 => c # NoClause /\ l \in c.lits
                  /\ \A o \in c.lits \ {l} : \E j \in 0 .. k : AssignedAt(o, j),
         trail' = Assigned(Unwound(k), l, k, c), control' = SubSeq(control, 1, k)
  PROVE  /\ Consistent(trail') /\ Reasons(trail', control') /\ Len(control') = k
         /\ \A j \in 1 .. k : \A o : LowTrue(trail', o, j) <=> LowTrue(trail, o, j)
<1>1. /\ ShapeOK /\ TypeOK /\ trail \in Seq(Entry) /\ control \in Seq(Nat) /\ Level \in Nat
      /\ k \in Nat /\ Consistent(trail) /\ Reasons(trail, control)
  BY DEF TrailInv, ShapeOK, TypeOK, Level
<1>2. /\ Unwound(k) \in Seq(Entry)
      /\ DOMAIN Unwound(k) = 1 .. Height(k) /\ Height(k) \in 0 .. Len(trail)
      /\ \A i \in 1 .. Height(k) : Unwound(k)[i] = trail[i]
      /\ \A i \in DOMAIN trail : i <= Height(k) <=> trail[i].level <= k
  <2>1. TypeOK /\ Shape(trail, control)
    BY <1>1 DEF ShapeOK
  <2>2. /\ Height(k) \in 0 .. Len(trail) /\ Unwound(k) \in Seq(Entry)
        /\ Len(Unwound(k)) = Height(k)
        /\ \A i \in 1 .. Height(k) : Unwound(k)[i] = trail[i]
        /\ \A i \in DOMAIN trail : i <= Height(k) <=> trail[i].level <= k
    BY <2>1, UnwoundFacts
  <2> QED BY <2>2
<1>3. DOMAIN trail = 1 .. Len(trail) /\ Len(trail) \in Nat
  BY <1>1
<1>4. PICK e \in Entry : /\ trail' = Append(Unwound(k), e) /\ e.lit = l /\ e.level = k
                         /\ e.reason = IF k = 0 THEN NoClause ELSE c
  <2>1. Unwound(k) \in Seq(Entry) /\ k \in Nat
    BY <1>1, <1>2
  <2>2. PICK e \in Entry : /\ Assigned(Unwound(k), l, k, c) = Append(Unwound(k), e)
                           /\ e.lit = l /\ e.level = k
                           /\ e.reason = IF k = 0 THEN NoClause ELSE c
    BY <2>1, AssignedFacts, SMTT(60)
  <2> QED BY <2>2
<1>5. /\ Consistent(Unwound(k)) /\ Reasons(Unwound(k), SubSeq(control, 1, k))
      /\ Len(SubSeq(control, 1, k)) = k
  BY <1>1, CutTrail, ControlCut
<1>6. Consistent(trail')
  <2>1. PICK n \in DOMAIN trail : trail[n].lit = -l /\ trail[n].level = Level
    BY DEF AssignedAt
  <2>2. ASSUME NEW i \in DOMAIN Unwound(k)
        PROVE  Unwound(k)[i].lit # e.lit /\ Unwound(k)[i].lit # -e.lit
    <3>1. i \in DOMAIN trail /\ Unwound(k)[i] = trail[i] /\ trail[i].level <= k
      BY <1>2, <1>3
    <3>2. i # n
      BY <1>1, <2>1, <3>1
    <3>3. trail[i].lit # -l
      BY <1>1, <2>1, <3>1, <3>2 DEF Consistent
    <3>4. trail[i].lit # l
      <4>1. trail[n].lit # -trail[i].lit
        BY <1>1, <2>1, <3>1 DEF Consistent
      <4> QED BY <2>1, <4>1
    <3> QED BY <1>4, <3>1, <3>3, <3>4
  <2> QED BY <1>2, <1>4, <1>5, <2>2, AppendConsistent
<1>7. Reasons(trail', control')
  <2>1. ASSUME e.reason # NoClause, NEW o \in e.reason.lits \ {e.lit}
        PROVE  \E j \in DOMAIN Unwound(k) : Unwound(k)[j].lit = -o /\ Unwound(k)[j].level <= e.level
    <3>1. k # 0 /\ e.reason = c
      BY <1>4, <2>1
    <3>2. PICK m \in 0 .. k : AssignedAt(o, m)
      BY <1>4, <2>1, <3>1
    <3>3. PICK j \in DOMAIN trail : trail[j].lit = -o /\ trail[j].level = m
      BY <3>2 DEF AssignedAt
    <3>4. trail[j].level <= k
      BY <1>1, <3>2, <3>3
    <3>5. j \in DOMAIN Unwound(k)
      BY <1>2, <1>3, <3>4
    <3> QED BY <1>2, <1>4, <3>3, <3>4, <3>5
  <2>2. e.reason # NoClause => e.lit \in e.reason.lits
    BY <1>4
  <2>3. e.reason = NoClause => e.level = 0
    BY <1>4
  <2> QED BY <1>2, <1>4, <1>5, <2>1, <2>2, <2>3, AppendReasons, ZenonT(60)
<1>8. ASSUME NEW j \in 1 .. k, NEW o PROVE LowTrue(trail', o, j) <=> LowTrue(trail, o, j)
  <2>1. j \in Nat /\ j <= k
    BY <1>1
  <2>2. LowTrue(trail', o, j) <=> LowTrue(Unwound(k), o, j)
    BY <1>2, <1>4, <2>1, AppendLow
  <2>3. LowTrue(Unwound(k), o, j) <=> LowTrue(trail, o, j)
    BY <1>1, <2>1, CutLow
  <2> QED BY <2>2, <2>3
<1> QED BY <1>5, <1>6, <1>7, <1>8

\* The clauses kept at a jump, with the one that drives it.
LEMMA JumpClean ==
  ASSUME TrailInv, NEW k \in 0 .. Level, k < Level, NEW c, NEW l, NEW D,
         \A d \in D : d \in db \/ d.lits = c,
         AssignedAt(l, Level), l \in c, \E o \in c \ {l} : AssignedAt(o, k),
         \A j \in 1 .. k : \A o : LowTrue(trail', o, j) <=> LowTrue(trail, o, j)
  PROVE  Clean(trail', k, D)
<1>1. TypeOK /\ Level \in Nat /\ k \in Nat /\ Consistent(trail) /\ Clean(trail, Level, db)
  BY DEF TrailInv, ShapeOK, TypeOK, Level
<1> SUFFICES ASSUME NEW j \in 1 .. k, NEW d \in D PROVE CleanAt(trail', d.lits, j)
  BY DEF Clean
<1>2. j \in Nat /\ j <= k /\ j \in 1 .. Level /\ j <= Level
  BY <1>1
<1>3. CASE d \in db
  <2>1. CleanAt(trail, d.lits, j)
    BY <1>1, <1>2, <1>3 DEF Clean
  <2>2. \A o : LowTrue(trail', o, j) <=> LowTrue(trail, o, j)
    OBVIOUS
  <2> QED BY <2>1, <2>2, SameLowClean
<1>4. CASE d.lits = c
  <2>1. PICK o \in c \ {l} : AssignedAt(o, k)
    OBVIOUS
  <2>2. ~LowFalse(trail, l, j) /\ ~LowFalse(trail, o, j)
    BY <1>1, <1>2, <2>1, NotLow
  <2>3. ~LowFalse(trail', l, j) /\ ~LowFalse(trail', o, j)
    BY <2>2 DEF LowFalse
  <2> QED BY <1>4, <2>1, <2>3 DEF CleanAt
<1> QED BY <1>3, <1>4

LEMMA DecideTrail ==
  ASSUME TrailInv, NEW l \in Lit, Decide(l)
  PROVE  TrailOK(trail', control', db)
<1>1. /\ ShapeOK /\ TypeOK /\ trail \in Seq(Entry) /\ control \in Seq(Nat) /\ Level \in Nat
      /\ Level = Len(control)
      /\ Consistent(trail) /\ Reasons(trail, control) /\ Clean(trail, Level, db)
  BY DEF TrailInv, ShapeOK, TypeOK, Level
<1>2. PICK e \in Entry : /\ trail' = Append(trail, e)
                         /\ e.lit = l /\ e.level = Level + 1 /\ e.reason = NoClause
  <2> DEFINE e == [lit |-> l, level |-> Level + 1, reason |-> NoClause]
  <2>1. e \in Entry
    BY <1>1, NoClauseType DEF Entry
  <2> QED BY <2>1 DEF Decide
<1>3. /\ control' = Append(control, Len(trail))
      /\ Len(control') = Level + 1 /\ control'[Level + 1] = Len(trail)
      /\ \A k \in 1 .. Level : control'[k] = control[k]
  BY <1>1 DEF Decide
<1>4. \A i \in DOMAIN trail : trail[i].level \in Nat /\ trail[i].level <= Level
  BY <1>1, TrailEntry DEF ShapeOK, Shape
<1>5. Consistent(trail')
  <2>1. \A i \in DOMAIN trail : trail[i].lit # e.lit /\ trail[i].lit # -e.lit
    BY <1>2 DEF Decide, Undefined, TrueLits
  <2> QED BY <1>1, <1>2, <2>1, AppendConsistent
<1>6. Reasons(trail', control')
  <2>1. \A i \in DOMAIN trail : trail[i].level # 0 => control'[trail[i].level] = control[trail[i].level]
    BY <1>1, <1>3, <1>4
  <2>2. control'[e.level] = Len(trail)
    BY <1>2, <1>3
  <2>3. trail \in Seq(Entry) /\ Reasons(trail, control) /\ e.reason = NoClause
    BY <1>1, <1>2
  <2>4. Reasons(Append(trail, e), control')
    BY <2>1, <2>2, <2>3, AppendReasons
  <2> QED BY <1>2, <2>4
<1>7. ASSUME NEW k \in 1 .. Level + 1, NEW o
      PROVE  LowTrue(trail', o, k) <=> LowTrue(trail, o, k)
  <2>1. k \in Nat /\ k <= e.level
    BY <1>1, <1>2
  <2>2. LowTrue(Append(trail, e), o, k) <=> LowTrue(trail, o, k)
    BY <1>1, <2>1, AppendLow
  <2> QED BY <1>2, <2>2
<1>8. ASSUME NEW d \in db PROVE CleanAt(trail, d.lits, Level + 1)
  <2>1. \A o : LowTrue(trail, o, Level + 1) <=> o \in TrueLits
    BY <1>1, <1>4 DEF LowTrue, TrueLits
  <2>2. ~IsConflicting(d) /\ \A o \in d.lits : ~IsUnit(d, o)
    BY DEF Decide, Propagated
  <2>3. PICK o \in d.lits : ~IsFalse(o)
    BY <2>2 DEF IsConflicting
  <2>4. CASE o \in TrueLits
    BY <2>1, <2>3, <2>4 DEF CleanAt
  <2>5. CASE o \notin TrueLits
    <3>1. PICK p \in d.lits \ {o} : ~IsFalse(p)
      BY <2>2, <2>3, <2>5 DEF IsUnit, Undefined, IsFalse
    <3> QED BY <2>1, <2>3, <3>1 DEF CleanAt, LowFalse, IsFalse
  <2> QED BY <2>4, <2>5
<1>9. Clean(trail', Level + 1, db)
  <2> SUFFICES ASSUME NEW k \in 1 .. Level + 1, NEW d \in db PROVE CleanAt(trail', d.lits, k)
    BY DEF Clean
  <2>1. CleanAt(trail, d.lits, k)
    <3>1. k \in 1 .. Level \/ k = Level + 1
      BY <1>1
    <3> QED BY <1>1, <1>8, <3>1 DEF Clean
  <2> QED BY <1>7, <2>1, SameLowClean
<1> QED BY <1>3, <1>5, <1>6, <1>9 DEF TrailOK

LEMMA RootLevelTrue ==
  ASSUME ShapeOK, Level = 0, NEW l \in Lit, l \in TrueLits PROVE RootTrue(l)
<1>1. -(-l) = l
  BY LitFacts
<1>2. RootFalse(-l)
  BY <1>1, RootLevelFalse DEF IsFalse
<1> QED BY <1>1, <1>2 DEF RootFalse

LEMMA JumpLit ==
  ASSUME NEW c, NEW l, NEW k, JumpLevel(c, l, k), k # 0
  PROVE  (\E o \in c \ {l} : AssignedAt(o, k)) /\ \A o \in c \ {l} : \E j \in 0 .. k : AssignedAt(o, j)
BY DEF JumpLevel

LEMMA TrailInit == Init => TrailInv
<1> SUFFICES ASSUME Init PROVE TrailInv
  OBVIOUS
<1>1. ShapeOK
  BY ShapeInit
<1>2. DOMAIN trail = {} /\ db = {}
  BY DEF Init
<1> QED BY <1>1, <1>2 DEF TrailInv, Consistent, Reasons, Clean

LEMMA TrailStep == TrailInv /\ [Next]_vars => TrailInv'
<1> SUFFICES ASSUME TrailInv, [Next]_vars PROVE TrailInv'
  OBVIOUS
<1>0. /\ ShapeOK /\ ShapeOK' /\ TypeOK /\ trail \in Seq(Entry) /\ control \in Seq(Nat)
      /\ Level \in Nat /\ Level = Len(control) /\ TrailOK(trail, control, db)
  BY ShapeStep DEF TrailInv, TrailOK, ShapeOK, TypeOK, Level
<1> SUFFICES TrailOK(trail', control', db')
  BY <1>0 DEF TrailInv, TrailOK, Level, Consistent, Reasons, Reasoned, Falsified, Clean,
              CleanAt, LowFalse, LowTrue, NoClause
<1>1. CASE AddOriginalClause
  <2> DEFINE c == Formula[added + 1]
             rest == {l \in c : ~RootFalse(l)}
  <2>1. added + 1 \in DOMAIN Formula /\ c \in SUBSET Lit /\ rest \in SUBSET Lit
    BY <1>0, <1>1, FormulaClause DEF AddOriginalClause, TypeOK
  <2>2. Level = 0 /\ control' = control /\ Len(control') = 0
    BY <1>0, <1>1 DEF AddOriginalClause
  <2>3. Clean(trail', Len(control'), db')
    BY <2>2 DEF Clean
  <2>4. CASE UNCHANGED trail
    BY <1>0, <2>2, <2>3, <2>4 DEF TrailOK
  <2>5. ASSUME NEW l \in rest, trail' = Assigned(trail, l, 0, NoClause),
               ~\E o \in c : RootTrue(o) \/ -o \in c
        PROVE  TrailOK(trail', control', db')
    <3>1. l \in Lit /\ ~RootTrue(l) /\ ~RootFalse(l)
      BY <2>1, <2>5
    <3>2. Undefined(l)
      BY <1>0, <2>2, <3>1, RootLevelTrue, RootLevelFalse DEF Undefined, IsFalse
    <3>3. TrailOK(trail', control', db)
      BY <2>2, <2>5, <3>1, <3>2, NoClauseType, AssignTrail
    <3> QED BY <2>3, <3>3 DEF TrailOK
  <2> QED BY <1>1, <2>4, <2>5 DEF AddOriginalClause
<1>2. ASSUME NEW l \in Lit, Decide(l) PROVE TrailOK(trail', control', db')
  <2>1. db' = db
    BY <1>2 DEF Decide
  <2> QED BY <1>2, <2>1, DecideTrail
<1>3. ASSUME NEW c \in db, NEW l \in Lit, PropagateUnit(c, l) PROVE TrailOK(trail', control', db')
  <2>1. /\ c \in Clause /\ Undefined(l) /\ l \in c.lits /\ c # NoClause
        /\ \A o \in c.lits \ {l} : IsFalse(o)
    BY <1>0, <1>3, DbClause DEF PropagateUnit, IsUnit, NoClause
  <2>2. trail' = Assigned(trail, l, Level, c) /\ control' = control /\ db' = db
    BY <1>3 DEF PropagateUnit
  <2> QED BY <2>1, <2>2, AssignTrail
<1>4. ASSUME NEW k \in 0 .. Level, Backtrack(k) PROVE TrailOK(trail', control', db')
  <2>1. /\ trail' = Unwound(k) /\ control' = SubSeq(control, 1, k) /\ db' = db /\ k < Level
        /\ k \in Nat
    BY <1>0, <1>4 DEF Backtrack
  <2>2. Consistent(trail') /\ Reasons(trail', control') /\ Len(control') = k
    BY <1>0, <2>1, CutTrail, ControlCut DEF TrailOK
  <2>3. Clean(trail', k, db')
    <3> SUFFICES ASSUME NEW j \in 1 .. k, NEW d \in db PROVE CleanAt(trail', d.lits, j)
      BY <2>1 DEF Clean
    <3>1. j \in Nat /\ j <= k /\ j \in 1 .. Level
      BY <1>0, <2>1
    <3>2. ASSUME NEW o PROVE LowTrue(trail', o, j) <=> LowTrue(trail, o, j)
      BY <1>0, <2>1, <3>1, CutLow
    <3>3. CleanAt(trail, d.lits, j)
      BY <1>0, <3>1 DEF TrailOK, Clean
    <3> QED BY <3>2, <3>3, SameLowClean
  <2> QED BY <2>2, <2>3 DEF TrailOK
<1>5. CASE UNCHANGED <<db, trail, control>>
  BY <1>0, <1>5
<1>6. ASSUME NEW i \in DOMAIN trail, StrengthenReason(i) PROVE TrailOK(trail', control', db')
  <2>1. UNCHANGED <<trail, control>> /\ db' = StrengthenedDb(i)
    BY <1>6 DEF StrengthenReason
  <2>2. PICK l \in Antecedent(i), o \in Antecedent(i) :
          l # o /\ AssignedAt(l, Level) /\ AssignedAt(o, Level)
    BY <1>6 DEF StrengthenReason
  <2>3. Clean(trail, Level, db')
    <3> SUFFICES ASSUME NEW k \in 1 .. Level, NEW d \in db' PROVE CleanAt(trail, d.lits, k)
      BY DEF Clean
    <3>1. CASE d \in db
      BY <1>0, <3>1 DEF TrailOK, Clean
    <3>2. CASE d = StrengthenedClause(i)
      <4>1. k \in Nat /\ k <= Level
        BY <1>0
      <4>2. ~LowFalse(trail, l, k) /\ ~LowFalse(trail, o, k)
        BY <1>0, <2>2, <4>1, NotLow DEF TrailOK
      <4>3. d.lits = Antecedent(i)
        BY <3>2 DEF StrengthenedClause
      <4> QED BY <2>2, <4>2, <4>3 DEF CleanAt
    <3> QED BY <2>1, <3>1, <3>2 DEF StrengthenedDb
  <2> QED BY <1>0, <2>1, <2>3 DEF TrailOK
<1>7. ASSUME NEW i \in DOMAIN trail, NEW forced \in Lit, NEW k \in 0 .. Level,
             StrengthenAndForce(i, forced, k)
      PROVE  TrailOK(trail', control', db')
  <2> DEFINE c == StrengthenedClause(i)
  <2>1. c \in Clause /\ c.lits = Antecedent(i)
    BY <1>0, AntecedentType DEF StrengthenedClause
  <2>2. /\ forced \in c.lits /\ AssignedAt(forced, Level) /\ JumpLevel(c.lits, forced, k) /\ k < Level
        /\ trail' = Assigned(Unwound(k), forced, k, c) /\ control' = SubSeq(control, 1, k)
        /\ db' = StrengthenedDb(i)
    BY <1>7, <2>1 DEF StrengthenAndForce, JumpLevel
  <2>3. c # NoClause
    BY <2>2 DEF NoClause
  <2> HIDE DEF c
  <2>4. /\ Consistent(trail') /\ Reasons(trail', control') /\ Len(control') = k
        /\ \A j \in 1 .. k : \A o : LowTrue(trail', o, j) <=> LowTrue(trail, o, j)
    BY <2>1, <2>2, <2>3, JumpTrail, JumpLit
  <2>5. \A d \in db' : d \in db \/ d.lits = c.lits
    BY <2>2 DEF StrengthenedDb, c
  <2>6. Clean(trail', k, db')
    <3>1. CASE k = 0
      BY <3>1 DEF Clean
    <3>2. CASE k # 0
      <4>1. \E o \in c.lits \ {forced} : AssignedAt(o, k)
        BY <2>2, <3>2, JumpLit
      <4> QED BY <2>2, <2>4, <2>5, <4>1, JumpClean
    <3> QED BY <3>1, <3>2
  <2> QED BY <2>4, <2>6 DEF TrailOK
<1>8. ASSUME NEW i \in DOMAIN trail, NEW k \in 0 .. Level,
             NEW subsumed \in SUBSET {d \in db : d.red}, Learn(i, k, subsumed)
      PROVE  TrailOK(trail', control', db')
  <2> DEFINE c == [lits |-> resolvent, red |-> TRUE]
             l == -trail[i].lit
  <2>1. c \in Clause /\ l \in Lit /\ c.lits = resolvent /\ -l = trail[i].lit
    BY <1>0, TrailEntry, LitFacts DEF TypeOK, Clause
  <2>2. /\ JumpLevel(resolvent, l, k) /\ k < Level /\ i \in Open
        /\ trail' = Assigned(Unwound(k), l, k, c) /\ control' = SubSeq(control, 1, k)
    BY <1>8 DEF Learn, JumpLevel, OnlyOpen
  <2>3. l \in resolvent /\ AssignedAt(l, Level)
    BY <2>1, <2>2 DEF Open, AssignedAt
  <2>4. c # NoClause
    BY <2>1, <2>3 DEF NoClause
  <2>5. \A d \in db' : d \in db \/ d.lits = resolvent
    BY <1>8 DEF Learn
  <2> HIDE DEF c, l
  <2>6. /\ Consistent(trail') /\ Reasons(trail', control') /\ Len(control') = k
        /\ \A j \in 1 .. k : \A o : LowTrue(trail', o, j) <=> LowTrue(trail, o, j)
    BY <2>1, <2>2, <2>3, <2>4, JumpTrail, JumpLit
  <2>7. Clean(trail', k, db')
    <3>1. CASE k = 0
      BY <3>1 DEF Clean
    <3>2. CASE k # 0
      <4>1. \E o \in resolvent \ {l} : AssignedAt(o, k)
        BY <2>2, <3>2, JumpLit
      <4> QED BY <2>2, <2>3, <2>5, <2>6, <4>1, JumpClean
    <3> QED BY <3>1, <3>2
  <2> QED BY <2>6, <2>7 DEF TrailOK
<1>9. CASE \/ RootConflict \/ StartAnalysis \/ \E c \in db : PropagateConflict(c)
           \/ \E i \in DOMAIN trail : ResolveReason(i)
           \/ \E i, u \in DOMAIN trail : MinimizeStep(i, u)
           \/ UNCHANGED vars
  BY <1>5, <1>9 DEF RootConflict, StartAnalysis, PropagateConflict, ResolveReason, MinimizeStep, vars
<1> QED BY <1>1, <1>2, <1>3, <1>4, <1>6, <1>7, <1>8, <1>9 DEF Next, Analyze

\* Each literal of the trail above the root level is a decision that opens its
\* level or follows from literals before it, by a clause that holds it.
THEOREM TrailJustified == Spec => []TrailReasons
<1>1. TrailInv => TrailReasons
  <2> SUFFICES ASSUME TrailInv PROVE TrailReasons
    OBVIOUS
  <2>1. \A k \in DOMAIN control : \A i \in DOMAIN trail : control[k] < i <=> k <= trail[i].level
    BY DEF TrailInv, ShapeOK, Shape
  <2>2. \A i \in DOMAIN trail : \A o, k : Falsified(trail, o, i, k) =>
          \E j \in 1 .. i - 1 : trail[j].lit = -o /\ trail[j].level <= k
    BY SMTT(60) DEF Falsified, TrailInv, ShapeOK, TypeOK
  <2> QED BY <2>1, <2>2 DEF TrailReasons, TrailInv, Reasons, Reasoned
<1> QED BY TrailInit, TrailStep, <1>1, PTL DEF Spec

-----------------------------------------------------------------------------
(***************************************************************************)
(* Analysis on that trail.                                                 *)
(***************************************************************************)
Stays(l) == \E i \in DOMAIN trail : trail[i].lit = -l /\ trail[i].level > 0

LEMMA AntecedentStays ==
  ASSUME TrailInv, NEW i \in DOMAIN trail, trail[i].reason # NoClause, NEW o \in Antecedent(i)
  PROVE  \E j \in DOMAIN trail :
           trail[j].lit = -o /\ trail[j].level > 0 /\ trail[j].level <= trail[i].level
<1>1. o \in trail[i].reason.lits \ {trail[i].lit} /\ ~RootFalse(o)
  BY DEF Antecedent
<1>2. PICK j \in DOMAIN trail : trail[j].lit = -o /\ trail[j].level <= trail[i].level
  BY <1>1 DEF TrailInv, Reasons, Reasoned, Falsified
<1>3. trail[j].level \in Nat /\ trail[j].level # 0
  BY <1>1, <1>2, TrailEntry DEF TrailInv, ShapeOK, TypeOK, RootFalse, RootTrue
<1> QED BY <1>2, <1>3

LEMMA ResolvedStays ==
  ASSUME TrailInv, NEW i \in DOMAIN trail, trail[i].reason # NoClause,
         \A l \in resolvent : Stays(l)
  PROVE  \A l \in Resolved(i) : Stays(l)
BY AntecedentStays DEF Resolved, Stays

\* Another open literal stays open when one is resolved away.
LEMMA OpenStays ==
  ASSUME TrailInv, NEW i \in DOMAIN trail, NEW j \in Open, i # j
  PROVE  j \in DOMAIN trail /\ trail[j].level = Level /\ -trail[j].lit \in Resolved(i)
<1>1. j \in DOMAIN trail /\ trail[j].level = Level /\ -trail[j].lit \in resolvent
  BY DEF Open
<1>2. trail[i].lit \in Lit /\ trail[j].lit \in Lit
  BY <1>1, TrailEntry DEF TrailInv, ShapeOK, TypeOK
<1>3. trail[j].lit # trail[i].lit
  BY <1>1 DEF TrailInv, Consistent
<1>4. -trail[j].lit # -trail[i].lit
  BY <1>2, <1>3, LitFacts
<1> QED BY <1>1, <1>4 DEF Resolved

\* On the level of a conflict something is open.
LEMMA ConflictOpen ==
  ASSUME TrailInv, Level > 0, NEW c \in db, IsConflicting(c)
  PROVE  /\ \A l \in c.lits : \E i \in DOMAIN trail : trail[i].lit = -l
         /\ \E i \in DOMAIN trail : trail[i].level = Level /\ -trail[i].lit \in c.lits
                                    /\ ~RootFalse(-trail[i].lit)
<1>1. /\ TypeOK /\ Level \in Nat /\ Consistent(trail) /\ CleanAt(trail, c.lits, Level)
      /\ c.lits \in SUBSET Lit
  BY DbClause, SMTT(60) DEF TrailInv, ShapeOK, TypeOK, Level, Clean
<1>2. \A i \in DOMAIN trail : trail[i].level \in Nat /\ trail[i].level <= Level
  BY TrailEntry DEF TrailInv, ShapeOK, TypeOK, Shape, Level
<1>3. \A l \in c.lits : \E i \in DOMAIN trail : trail[i].lit = -l
  BY DEF IsConflicting, IsFalse, TrueLits
<1>4. \A l \in c.lits : ~LowTrue(trail, l, Level)
  BY <1>1, <1>3 DEF LowTrue, Consistent
<1>5. PICK l \in c.lits : ~LowFalse(trail, l, Level)
  BY <1>1, <1>4 DEF CleanAt
<1>6. PICK i \in DOMAIN trail : trail[i].lit = -l
  BY <1>3
<1>7. trail[i].level = Level
  <2>1. trail[i].level \in Nat /\ trail[i].level <= Level /\ Level \in Nat
    BY <1>1, <1>2, <1>6
  <2>2. ~(trail[i].level < Level)
    BY <1>5, <1>6 DEF LowFalse, LowTrue
  <2> QED BY <2>1, <2>2
<1>8. -trail[i].lit = l
  BY <1>1, <1>6, LitFacts
<1>9. ~RootFalse(l)
  <2> SUFFICES ASSUME NEW j \in DOMAIN trail, trail[j].lit = -l, trail[j].level = 0 PROVE FALSE
    BY DEF RootFalse, RootTrue
  <2> QED BY <1>1, <1>6, <1>7 DEF Consistent
<1> QED BY <1>3, <1>7, <1>8, <1>9

LEMMA AnalysisInit == Init => AnalysisInv
BY DEF Init, AnalysisInv

LEMMA AnalysisStep == TrailInv /\ AnalysisInv /\ [Next]_vars => AnalysisInv'
<1> SUFFICES ASSUME TrailInv, AnalysisInv, [Next]_vars PROVE AnalysisInv'
  OBVIOUS
<1>0. /\ ShapeOK /\ TypeOK /\ Level \in Nat /\ Consistent(trail)
      /\ \A i \in DOMAIN trail : trail[i].level \in Nat /\ trail[i].level <= Level
      /\ \A i \in DOMAIN trail : trail[i].lit \in Lit
  BY TrailEntry DEF TrailInv, ShapeOK, TypeOK, Shape, Level
<1> DEFINE Analyzing(R, c, f) ==
      /\ \A l \in R : Stays(l)
      /\ \E j \in DOMAIN trail : trail[j].level = Level /\ -trail[j].lit \in R
      /\ f => \/ R \subseteq c.lits
              \/ \E u \in DOMAIN trail : {j \in DOMAIN trail : trail[j].level = Level /\ -trail[j].lit \in R} = {u}
<1>1. phase = "analyze" => Analyzing(resolvent, conflict, first)
  BY DEF AnalysisInv, Stays, Open, OnlyOpen
<1>2. ASSUME UNCHANGED <<trail, control>>, phase' = "analyze", Analyzing(resolvent', conflict', first')
      PROVE  AnalysisInv'
  BY <1>2 DEF AnalysisInv, Stays, Open, OnlyOpen, Level
<1>3. ASSUME conflict' = NoClause, phase' # "analyze" PROVE AnalysisInv'
  BY <1>3 DEF AnalysisInv, NoClause
<1>4. CASE AddOriginalClause \/ \E l \in Lit : Decide(l) \/ \E c \in db : PropagateUnit(c, l)
  BY <1>3, <1>4 DEF AddOriginalClause, Decide, PropagateUnit, Searching
<1>5. ASSUME NEW c \in db, PropagateConflict(c) PROVE AnalysisInv'
  BY <1>5 DEF PropagateConflict, Searching, AnalysisInv, IsConflicting, IsFalse, TrueLits
<1>6. ASSUME NEW k \in 0 .. Level, Backtrack(k) PROVE AnalysisInv'
  BY <1>3, <1>6 DEF Backtrack
<1>7. CASE RootConflict
  BY <1>7 DEF RootConflict, AnalysisInv
<1>8. CASE StartAnalysis
  <2>1. /\ conflict \in db /\ IsConflicting(conflict) /\ Level > 0
        /\ UNCHANGED <<trail, control, conflict>> /\ phase' = "analyze"
        /\ resolvent' = {l \in conflict.lits : ~RootFalse(l)}
    BY <1>0, <1>8 DEF StartAnalysis, AnalysisInv
  <2>2. /\ \A l \in conflict.lits : \E i \in DOMAIN trail : trail[i].lit = -l
        /\ \E i \in DOMAIN trail : trail[i].level = Level /\ -trail[i].lit \in conflict.lits
                                   /\ ~RootFalse(-trail[i].lit)
    BY <2>1, ConflictOpen
  <2>3. \A l \in resolvent' : Stays(l)
    <3> SUFFICES ASSUME NEW l \in conflict.lits, ~RootFalse(l) PROVE Stays(l)
      BY <2>1
    <3>1. PICK i \in DOMAIN trail : trail[i].lit = -l
      BY <2>2
    <3>2. trail[i].level # 0
      BY <3>1 DEF RootFalse, RootTrue
    <3> QED BY <1>0, <3>1, <3>2 DEF Stays
  <2>4. resolvent' \subseteq conflict'.lits
    BY <2>1
  <2>5. \E j \in DOMAIN trail : trail[j].level = Level /\ -trail[j].lit \in resolvent'
    BY <2>1, <2>2
  <2> QED BY <1>2, <2>1, <2>3, <2>4, <2>5
<1>9. ASSUME NEW i \in DOMAIN trail, ResolveReason(i) PROVE AnalysisInv'
  <2>1. /\ i \in Open /\ Open # {i} /\ trail[i].reason # NoClause /\ phase = "analyze"
        /\ UNCHANGED <<trail, control, conflict, phase>> /\ resolvent' = Resolved(i) /\ first' = FALSE
    BY <1>9 DEF ResolveReason, IsLatestOpen, OnlyOpen
  <2>2. PICK j \in Open : i # j
    BY <2>1
  <2>3. \A l \in resolvent' : Stays(l)
    BY <1>1, <2>1, ResolvedStays
  <2>4. j \in DOMAIN trail /\ trail[j].level = Level /\ -trail[j].lit \in resolvent'
    BY <2>1, <2>2, OpenStays
  <2> QED BY <1>2, <2>1, <2>3, <2>4
<1>10. ASSUME NEW i \in DOMAIN trail, StrengthenReason(i) PROVE AnalysisInv'
  <2>1. /\ trail[i].reason # NoClause /\ phase = "analyze" /\ UNCHANGED <<trail, control, phase>>
        /\ resolvent' = Antecedent(i) /\ conflict'.lits = Antecedent(i)
    BY <1>10 DEF StrengthenReason, StrengthenedClause
  <2>2. PICK l \in Antecedent(i) : AssignedAt(l, Level)
    BY <1>10 DEF StrengthenReason
  <2>3. PICK j \in DOMAIN trail : trail[j].lit = -l /\ trail[j].level = Level
    BY <2>2 DEF AssignedAt
  <2>4. l \in Lit /\ -trail[j].lit = l
    BY <1>0, <2>2, <2>3, AntecedentType, LitFacts
  <2>5. \A o \in resolvent' : Stays(o)
    BY <2>1, AntecedentStays DEF Stays
  <2>6. resolvent' \subseteq conflict'.lits
    BY <2>1
  <2> QED BY <1>2, <2>1, <2>2, <2>3, <2>4, <2>5, <2>6
<1>11. ASSUME NEW i \in DOMAIN trail, NEW forced \in Lit, NEW k \in 0 .. Level,
              StrengthenAndForce(i, forced, k)
       PROVE  AnalysisInv'
  BY <1>3, <1>11 DEF StrengthenAndForce
<1>12. ASSUME NEW i \in DOMAIN trail, NEW u \in DOMAIN trail, MinimizeStep(i, u)
       PROVE  AnalysisInv'
  <2>1. /\ Open = {u} /\ trail[i].level < Level /\ trail[i].reason # NoClause /\ phase = "analyze"
        /\ UNCHANGED <<trail, control, conflict, phase, first>> /\ resolvent' = Resolved(i)
    BY <1>12 DEF MinimizeStep, OnlyOpen
  <2>2. \A l \in resolvent' : Stays(l)
    BY <1>1, <2>1, ResolvedStays
  <2>3. u \in Open /\ i # u
    BY <1>0, <2>1 DEF Open
  <2>4. trail[u].level = Level /\ -trail[u].lit \in resolvent'
    BY <2>1, <2>3, OpenStays
  <2>5. ASSUME NEW j \in DOMAIN trail, trail[j].level = Level, -trail[j].lit \in resolvent' PROVE j = u
    <3>1. CASE -trail[j].lit \in resolvent
      BY <2>1, <2>5, <3>1 DEF Open
    <3>2. CASE -trail[j].lit \in Antecedent(i)
      <4>1. PICK n \in DOMAIN trail : trail[n].lit = -(-trail[j].lit) /\ trail[n].level <= trail[i].level
        BY <2>1, <3>2, AntecedentStays
      <4>2. trail[n].lit = trail[j].lit
        BY <1>0, <4>1, LitFacts
      <4>3. n = j
        BY <1>0, <4>2 DEF Consistent
      <4> QED BY <1>0, <2>1, <2>5, <4>1, <4>3
    <3> QED BY <2>1, <2>5, <3>1, <3>2 DEF Resolved
  <2>6. {j \in DOMAIN trail : trail[j].level = Level /\ -trail[j].lit \in resolvent'} = {u}
    BY <2>4, <2>5
  <2> QED BY <1>2, <2>1, <2>2, <2>4, <2>6
<1>13. ASSUME NEW i \in DOMAIN trail, NEW k \in 0 .. Level,
              NEW subsumed \in SUBSET {d \in db : d.red}, Learn(i, k, subsumed)
       PROVE  AnalysisInv'
  BY <1>3, <1>13 DEF Learn
<1>14. CASE UNCHANGED vars
  BY <1>14 DEF vars, AnalysisInv, Open, OnlyOpen, Level, IsConflicting, IsFalse, TrueLits, NoClause
<1> QED BY <1>4, <1>5, <1>6, <1>7, <1>8, <1>9, <1>10, <1>11, <1>12, <1>13, <1>14 DEF Next, Analyze

\* Analysis never leaves the falsified part of the trail, never runs out of
\* literals on the conflict level, and never asks a decision for its reason.
THEOREM AnalysisOnTrail == Spec => []ResolventFalsified
<1>1. TrailInv /\ AnalysisInv => ResolventFalsified
  <2> SUFFICES ASSUME TrailInv, AnalysisInv, phase = "analyze",
                      NEW i \in Open, IsLatestOpen(i), ~OnlyOpen(i), trail[i].reason = NoClause
               PROVE  FALSE
    BY DEF AnalysisInv, ResolventFalsified
  <2>1. /\ trail \in Seq(Entry) /\ control \in Seq(Nat) /\ Level \in Nat /\ Level = Len(control)
        /\ \A j \in DOMAIN trail : trail[j].level \in Nat /\ trail[j].level <= Level
    BY TrailEntry DEF TrailInv, ShapeOK, TypeOK, Shape, Level
  <2>2. i \in DOMAIN trail /\ trail[i].level = Level /\ -trail[i].lit \in resolvent
    BY DEF Open
  <2>3. PICK n \in DOMAIN trail : trail[n].level > 0
    BY <2>2 DEF AnalysisInv
  <2>4. Level > 0
    BY <2>1, <2>3
  <2>5. control[Level] = i - 1
    BY <2>2, <2>4 DEF TrailInv, Reasons, Reasoned
  <2>6. PICK j \in Open : j # i
    BY DEF OnlyOpen
  <2>7. j \in DOMAIN trail /\ trail[j].level = Level /\ j <= i
    BY <2>6 DEF Open, IsLatestOpen
  <2>8. control[Level] < j
    BY <2>1, <2>4, <2>7 DEF TrailInv, ShapeOK, Shape
  <2> QED BY <2>1, <2>2, <2>5, <2>6, <2>7, <2>8
<1> QED BY TrailInit, TrailStep, AnalysisInit, AnalysisStep, <1>1, PTL DEF Spec

-----------------------------------------------------------------------------
(***************************************************************************)
(* The clause that drives the search is new.  All its literals are false,  *)
(* and all but one of them already were when the decision of the conflict  *)
(* level was made: a clause inside it would have been propagated by then.  *)
(***************************************************************************)
LEMMA NotSubsumed ==
  ASSUME TrailInv, NEW k \in 0 .. Level, k < Level, NEW c \in SUBSET Lit, NEW forced \in c,
         JumpLevel(c, forced, k), AssignedAt(forced, Level), NEW d \in db
  PROVE  ~(d.lits \subseteq c)
<1> SUFFICES ASSUME d.lits \subseteq c PROVE FALSE
  OBVIOUS
<1>1. /\ Level \in Nat /\ k \in Nat /\ Level \in 1 .. Level /\ Consistent(trail)
      /\ CleanAt(trail, d.lits, Level)
  BY DEF TrailInv, ShapeOK, TypeOK, Level, Clean
<1>2. \A o \in c \ {forced} : LowFalse(trail, o, Level)
  <2> SUFFICES ASSUME NEW o \in c \ {forced} PROVE LowFalse(trail, o, Level)
    OBVIOUS
  <2>1. PICK j \in 0 .. k : AssignedAt(o, j)
    BY DEF JumpLevel
  <2>2. j < Level
    BY <1>1, <2>1
  <2> QED BY <2>1, <2>2 DEF AssignedAt, LowFalse, LowTrue
<1>3. \A o \in c : \E j \in DOMAIN trail : trail[j].lit = -o
  BY <1>2 DEF AssignedAt, LowFalse, LowTrue
<1>4. \A o \in c : ~LowTrue(trail, o, Level)
  <2> SUFFICES ASSUME NEW o \in c, LowTrue(trail, o, Level) PROVE FALSE
    OBVIOUS
  <2>1. PICK i \in DOMAIN trail : trail[i].lit = o
    BY DEF LowTrue
  <2>2. PICK j \in DOMAIN trail : trail[j].lit = -o
    BY <1>3
  <2>3. trail[j].lit # -trail[i].lit
    BY <1>1, <2>1, <2>2 DEF Consistent
  <2> QED BY <2>1, <2>2, <2>3
<1> QED BY <1>1, <1>2, <1>4 DEF CleanAt

\* A driving clause is added only if no clause that is kept subsumes it.
THEOREM NothingSubsumed == Spec => NewClauseNotSubsumed
<1>1. TrailInv /\ [Next]_vars =>
        [phase = "analyze" /\ phase' = "search" =>
           \A c \in db' \ db : \A d \in db \cap db' : ~(d.lits \subseteq c.lits)]_vars
  <2> SUFFICES ASSUME TrailInv, Next, phase = "analyze", phase' = "search",
                      NEW c \in db' \ db, NEW d \in db
               PROVE  ~(d.lits \subseteq c.lits)
    BY DEF vars
  <2>1. TypeOK
    BY DEF TrailInv, ShapeOK
  <2>2. ASSUME NEW i \in DOMAIN trail, NEW forced \in Lit, NEW k \in 0 .. Level,
               StrengthenAndForce(i, forced, k)
        PROVE  ~(d.lits \subseteq c.lits)
    <3>1. c.lits = Antecedent(i) /\ Antecedent(i) \in SUBSET Lit
      BY <2>1, <2>2, AntecedentType DEF StrengthenAndForce, StrengthenedDb, StrengthenedClause
    <3>2. /\ forced \in Antecedent(i) /\ AssignedAt(forced, Level)
          /\ JumpLevel(Antecedent(i), forced, k) /\ k < Level
      BY <2>2 DEF StrengthenAndForce, JumpLevel
    <3> QED BY <3>1, <3>2, NotSubsumed
  <2>3. ASSUME NEW i \in DOMAIN trail, NEW k \in 0 .. Level,
               NEW subsumed \in SUBSET {e \in db : e.red}, Learn(i, k, subsumed)
        PROVE  ~(d.lits \subseteq c.lits)
    <3> DEFINE l == -trail[i].lit
    <3>1. c.lits = resolvent /\ resolvent \in SUBSET Lit
      BY <2>1, <2>3 DEF Learn, TypeOK
    <3>2. l \in resolvent /\ trail[i].level = Level /\ -l = trail[i].lit
      BY <2>1, <2>3, TrailEntry, LitFacts DEF Learn, OnlyOpen, Open, TypeOK
    <3>3. AssignedAt(l, Level) /\ JumpLevel(resolvent, l, k) /\ k < Level
      BY <2>3, <3>2 DEF Learn, JumpLevel, AssignedAt
    <3> HIDE DEF l
    <3> QED BY <3>1, <3>2, <3>3, NotSubsumed
  <2>4. CASE \/ AddOriginalClause \/ \E l \in Lit : Decide(l)
             \/ \E e \in db : PropagateConflict(e) \/ \E l \in Lit : PropagateUnit(e, l)
             \/ \E k \in 0 .. Level : Backtrack(k)
             \/ RootConflict \/ StartAnalysis
    BY <2>4 DEF AddOriginalClause, Decide, PropagateConflict, PropagateUnit, Backtrack,
                RootConflict, StartAnalysis, Searching
  <2>5. CASE \/ \E i \in DOMAIN trail : ResolveReason(i) \/ StrengthenReason(i)
             \/ \E i, u \in DOMAIN trail : MinimizeStep(i, u)
    BY <2>5 DEF ResolveReason, StrengthenReason, MinimizeStep
  <2> QED BY <2>2, <2>3, <2>4, <2>5 DEF Next, Analyze
<1> QED BY TrailInit, TrailStep, <1>1, PTL DEF Spec, NewClauseNotSubsumed

-----------------------------------------------------------------------------
(***************************************************************************)
(* The irredundant clauses and the root units keep the formula: each step  *)
(* keeps enough of them to imply those it drops.                           *)
(***************************************************************************)
Supports(m, D, U) == (\A d \in D : ~d.red => Satisfies(m, d.lits)) /\ U \subseteq m
KeptOK ==
  phase # "unsat" =>
    \A m \in Assignments :
      Supports(m, db, RootUnits) => \A i \in 1 .. added : Satisfies(m, Formula[i])

LEMMA KeptIsKept == KeptOK => KeepsFormula
<1> SUFFICES ASSUME KeptOK, phase # "unsat", NEW m \in Assignments,
                    \A c \in {d.lits : d \in {d \in db : ~d.red}} \cup {{l} : l \in RootUnits} :
                      Satisfies(m, c)
             PROVE  Supports(m, db, RootUnits)
  BY DEF KeptOK, KeepsFormula
<1>1. \A d \in db : ~d.red => Satisfies(m, d.lits)
  OBVIOUS
<1>2. ASSUME NEW l \in RootUnits PROVE l \in m
  <2>1. Satisfies(m, {l})
    BY <1>2
  <2> QED BY <2>1 DEF Satisfies
<1> QED BY <1>1, <1>2 DEF Supports

LEMMA TotalAssignment == ASSUME NEW m \in Assignments, NEW l \in Lit PROVE l \in m \/ -l \in m
<1>1. PICK v \in Var : l = v \/ l = -v
  BY DEF Lit
<1>2. v \in m <=> -v \notin m
  BY DEF Assignments
<1>3. v \in Int /\ -(-v) = v
  BY VarAssumption
<1> QED BY <1>1, <1>2, <1>3

\* What is assigned on the root level stays: cuts and new assignments are above it.
LEMMA RootsStay ==
  ASSUME \A i \in DOMAIN trail : trail[i].level = 0 => \E j \in DOMAIN trail' : trail'[j] = trail[i]
  PROVE  RootUnits \subseteq RootUnits'
BY DEF RootUnits, TrueLits, RootTrue

LEMMA AssignKeepsRoots ==
  ASSUME TypeOK, NEW l \in Lit, NEW k \in Nat, NEW c \in Clause, trail' = Assigned(trail, l, k, c)
  PROVE  RootUnits \subseteq RootUnits'
<1>1. PICK e \in Entry : Assigned(trail, l, k, c) = Append(trail, e)
  BY AssignedFacts DEF TypeOK
<1>2. \A i \in DOMAIN trail : i \in DOMAIN trail' /\ trail'[i] = trail[i]
  BY <1>1, AppendEntry DEF TypeOK
<1> QED BY <1>2, RootsStay

LEMMA CutKeepsRoots ==
  ASSUME ShapeOK, NEW k \in 0 .. Level, NEW i \in DOMAIN trail, trail[i].level = 0
  PROVE  i \in DOMAIN Unwound(k) /\ Unwound(k)[i] = trail[i]
<1>1. /\ Unwound(k) \in Seq(Entry) /\ Len(Unwound(k)) = Height(k) /\ Height(k) \in 0 .. Len(trail)
      /\ \A j \in 1 .. Height(k) : Unwound(k)[j] = trail[j]
      /\ i <= Height(k)
      /\ k \in Nat /\ Level \in Nat /\ i \in 1 .. Len(trail)
  BY UnwoundFacts DEF ShapeOK, TypeOK, Level
<1> QED BY <1>1

LEMMA JumpKeepsRoots ==
  ASSUME ShapeOK, NEW k \in 0 .. Level, NEW l \in Lit, NEW c \in Clause,
         trail' = Assigned(Unwound(k), l, k, c)
  PROVE  RootUnits \subseteq RootUnits'
<1>1. Unwound(k) \in Seq(Entry) /\ k \in Nat
  BY UnwoundFacts DEF ShapeOK, TypeOK, Level
<1>2. PICK e \in Entry : Assigned(Unwound(k), l, k, c) = Append(Unwound(k), e)
  BY <1>1, AssignedFacts
<1>3. \A i \in DOMAIN Unwound(k) : i \in DOMAIN trail' /\ trail'[i] = Unwound(k)[i]
  BY <1>1, <1>2, AppendEntry
<1> QED BY <1>3, CutKeepsRoots, RootsStay

\* The clause OTFS strengthens is inside each irredundant clause it replaces.
LEMMA StrengthenedSupports ==
  ASSUME TrailInv, AnalysisInv, phase = "analyze", NEW i \in Open, ~OnlyOpen(i), Strengthens(i),
         NEW m, \A d \in StrengthenedDb(i) : ~d.red => Satisfies(m, d.lits),
         NEW d \in db, ~d.red
  PROVE  Satisfies(m, d.lits)
<1> DEFINE c == StrengthenedClause(i)
<1>1. c \in StrengthenedDb(i) /\ c.lits = Antecedent(i)
      /\ c.red = (trail[i].reason.red /\ (Subsumes(i) => conflict.red))
  BY DEF StrengthenedDb, StrengthenedClause
<1>2. CASE d = trail[i].reason
  <2>1. ~c.red /\ Antecedent(i) \subseteq d.lits
    BY <1>1, <1>2 DEF Antecedent
  <2> QED BY <1>1, <2>1 DEF Satisfies
<1>3. CASE Subsumes(i) /\ d = conflict
  <2>1. resolvent \subseteq conflict.lits
    <3>1. ~\E u \in DOMAIN trail : OnlyOpen(u)
      BY DEF OnlyOpen
    <3> QED BY <1>3, <3>1 DEF AnalysisInv, Subsumes
  <2>2. Antecedent(i) \subseteq resolvent
    BY <1>3 DEF Subsumes, Strengthens
  <2>3. ~c.red
    BY <1>1, <1>3
  <2> QED BY <1>1, <1>3, <2>1, <2>2, <2>3 DEF Satisfies
<1>4. CASE d # trail[i].reason /\ ~(Subsumes(i) /\ d = conflict)
  BY <1>4 DEF StrengthenedDb
<1> QED BY <1>2, <1>3, <1>4

LEMMA KeptInit == Init => KeptOK
BY DEF Init, KeptOK

LEMMA KeptStep == TrailInv /\ AnalysisInv /\ KeptOK /\ [Next]_vars => KeptOK'
<1> SUFFICES ASSUME TrailInv, AnalysisInv, KeptOK, [Next]_vars, phase' # "unsat"
             PROVE  \A m \in Assignments : Supports(m, db', RootUnits') =>
                      \A i \in 1 .. added' : Satisfies(m, Formula'[i])
  BY DEF KeptOK
<1>0. ShapeOK /\ TypeOK /\ Level \in Nat /\ added \in Nat /\ Formula' = Formula
  BY InputKept, InputsAssumption DEF TrailInv, ShapeOK, TypeOK, Level, Formula
<1>1. ASSUME phase # "unsat", added' = added,
             RootUnits \subseteq RootUnits',
             \A m \in Assignments, d \in db :
               ~d.red /\ (\A e \in db' : ~e.red => Satisfies(m, e.lits)) => Satisfies(m, d.lits)
      PROVE  \A m \in Assignments : Supports(m, db', RootUnits') =>
               \A i \in 1 .. added' : Satisfies(m, Formula'[i])
  BY <1>0, <1>1 DEF KeptOK, Supports
<1>2. CASE AddOriginalClause
  <2> DEFINE c == Formula[added + 1]
             rest == {l \in c : ~RootFalse(l)}
  <2>1. /\ added + 1 \in DOMAIN Formula /\ c \in SUBSET Lit /\ rest \in SUBSET Lit
        /\ added' = added + 1 /\ phase = "search"
    BY <1>0, <1>2, FormulaClause DEF AddOriginalClause, TypeOK, Searching
  <2> SUFFICES ASSUME NEW m \in Assignments, Supports(m, db', RootUnits')
               PROVE  \A i \in 1 .. added' : Satisfies(m, Formula'[i])
    OBVIOUS
  <2>a. ASSUME Supports(m, db, RootUnits), Satisfies(m, c), NEW i \in 1 .. added'
        PROVE  Satisfies(m, Formula'[i])
    <3>1. i \in 1 .. added \/ i = added + 1
      BY <1>0, <2>1
    <3> QED BY <1>0, <2>1, <2>a, <3>1 DEF KeptOK
  <2>2. ASSUME UNCHANGED <<db, trail>>, \E l \in c : RootTrue(l) \/ -l \in c
        PROVE  Supports(m, db, RootUnits) /\ Satisfies(m, c)
    <3>1. Supports(m, db, RootUnits)
      <4>1. RootUnits' = RootUnits
        BY <2>2 DEF RootUnits, TrueLits, RootTrue
      <4> QED BY <2>2, <4>1
    <3>2. PICK l \in c : RootTrue(l) \/ -l \in c
      BY <2>2
    <3>3. CASE RootTrue(l)
      BY <3>1, <3>2, <3>3 DEF Supports, RootUnits, TrueLits, RootTrue, Satisfies
    <3>4. CASE -l \in c
      <4>1. l \in m \/ -l \in m
        BY <2>1, <3>2, TotalAssignment
      <4> QED BY <3>1, <3>2, <3>4, <4>1 DEF Satisfies
    <3> QED BY <3>1, <3>2, <3>3, <3>4
  <2>3. ASSUME NEW l \in rest, trail' = Assigned(trail, l, 0, NoClause), db' = db
        PROVE  Supports(m, db, RootUnits) /\ Satisfies(m, c)
    <3>1. l \in Lit /\ NoClause \in Clause
      BY <2>1, NoClauseType
    <3>2. RootUnits \subseteq RootUnits'
      BY <1>0, <2>3, <3>1, AssignKeepsRoots
    <3>3. PICK e \in Entry : trail' = Append(trail, e) /\ e.lit = l /\ e.level = 0
      <4>1. trail \in Seq(Entry)
        BY <1>0 DEF TypeOK
      <4> QED BY <2>3, <3>1, <4>1, AssignedFacts
    <3>4. \E j \in DOMAIN trail' : trail'[j].lit = l /\ trail'[j].level = 0
      BY <1>0, <3>3, AppendEntry DEF TypeOK
    <3>5. l \in RootUnits'
      BY <3>4 DEF RootUnits, TrueLits, RootTrue
    <3> QED BY <2>3, <3>2, <3>5 DEF Supports, Satisfies
  <2>4. ASSUME db' = db \cup {[lits |-> rest, red |-> FALSE]}, UNCHANGED trail
        PROVE  Supports(m, db, RootUnits) /\ Satisfies(m, c)
    <3>1. Satisfies(m, rest)
      <4> DEFINE d == [lits |-> rest, red |-> FALSE]
      <4>1. d \in db' /\ ~d.red /\ d.lits = rest
        BY <2>4
      <4> HIDE DEF d
      <4>2. Satisfies(m, d.lits)
        BY <4>1 DEF Supports
      <4> QED BY <4>1, <4>2
    <3>2. Supports(m, db, RootUnits)
      <4>1. RootUnits' = RootUnits
        BY <2>4 DEF RootUnits, TrueLits, RootTrue
      <4> QED BY <2>4, <4>1 DEF Supports
    <3> QED BY <3>1, <3>2 DEF Satisfies
  <2> QED BY <1>2, <2>a, <2>2, <2>3, <2>4 DEF AddOriginalClause
<1>3. ASSUME NEW l \in Lit, Decide(l) PROVE RootUnits \subseteq RootUnits'
  <2> DEFINE e == [lit |-> l, level |-> Level + 1, reason |-> NoClause]
  <2>1. e \in Entry /\ trail' = Append(trail, e)
    BY <1>0, <1>3, NoClauseType DEF Entry, Decide
  <2> HIDE DEF e
  <2>2. \A i \in DOMAIN trail : i \in DOMAIN trail' /\ trail'[i] = trail[i]
    BY <1>0, <2>1, AppendEntry DEF TypeOK
  <2> QED BY <2>2, RootsStay
<1>4. CASE \E l \in Lit : Decide(l)
  BY <1>1, <1>3, <1>4 DEF Decide, Searching
<1>5. ASSUME NEW d \in db, NEW l \in Lit, PropagateUnit(d, l)
      PROVE  phase = "search" /\ UNCHANGED <<db, added>> /\ RootUnits \subseteq RootUnits'
  <2>1. d \in Clause /\ trail' = Assigned(trail, l, Level, d)
    BY <1>0, <1>5, DbClause DEF PropagateUnit
  <2> QED BY <1>0, <1>5, <2>1, AssignKeepsRoots DEF PropagateUnit, Searching
<1>6. CASE \E d \in db, l \in Lit : PropagateUnit(d, l)
  BY <1>1, <1>5, <1>6
<1>7. ASSUME NEW k \in 0 .. Level, Backtrack(k) PROVE RootUnits \subseteq RootUnits'
  BY <1>0, <1>7, CutKeepsRoots, RootsStay DEF Backtrack
<1>8. CASE \E k \in 0 .. Level : Backtrack(k)
  BY <1>1, <1>7, <1>8 DEF Backtrack
<1>9. CASE \/ \E d \in db : PropagateConflict(d)
           \/ StartAnalysis \/ \E i \in DOMAIN trail : ResolveReason(i)
           \/ \E i, u \in DOMAIN trail : MinimizeStep(i, u)
  <2>1. phase # "unsat" /\ UNCHANGED <<trail, db, added>>
    BY <1>9 DEF PropagateConflict, StartAnalysis, ResolveReason, MinimizeStep, Searching
  <2> QED BY <1>1, <2>1 DEF RootUnits, TrueLits, RootTrue
<1>10. CASE RootConflict
  BY <1>10 DEF RootConflict
<1>11. ASSUME NEW i \in DOMAIN trail, StrengthenReason(i)
       PROVE  \A m \in Assignments : Supports(m, db', RootUnits') =>
                \A n \in 1 .. added' : Satisfies(m, Formula'[n])
  <2>1. /\ phase = "analyze" /\ i \in Open /\ ~OnlyOpen(i) /\ Strengthens(i)
        /\ db' = StrengthenedDb(i) /\ UNCHANGED <<trail, added>>
    BY <1>11 DEF StrengthenReason, IsLatestOpen
  <2>2. RootUnits \subseteq RootUnits'
    BY <2>1 DEF RootUnits, TrueLits, RootTrue
  <2> QED BY <1>1, <2>1, <2>2, StrengthenedSupports
<1>12. ASSUME NEW i \in DOMAIN trail, NEW forced \in Lit, NEW k \in 0 .. Level,
              StrengthenAndForce(i, forced, k)
       PROVE  \A m \in Assignments : Supports(m, db', RootUnits') =>
                \A n \in 1 .. added' : Satisfies(m, Formula'[n])
  <2>1. /\ phase = "analyze" /\ i \in Open /\ ~OnlyOpen(i) /\ Strengthens(i)
        /\ db' = StrengthenedDb(i) /\ added' = added
        /\ trail' = Assigned(Unwound(k), forced, k, StrengthenedClause(i))
    BY <1>12 DEF StrengthenAndForce, IsLatestOpen
  <2>2. RootUnits \subseteq RootUnits'
    BY <1>0, <2>1, AntecedentType, JumpKeepsRoots
  <2> QED BY <1>1, <2>1, <2>2, StrengthenedSupports
<1>13. ASSUME NEW i \in DOMAIN trail, NEW k \in 0 .. Level,
              NEW subsumed \in SUBSET {d \in db : d.red}, Learn(i, k, subsumed)
       PROVE  \A m \in Assignments : Supports(m, db', RootUnits') =>
                \A n \in 1 .. added' : Satisfies(m, Formula'[n])
  <2> DEFINE c == [lits |-> resolvent, red |-> TRUE]
             l == -trail[i].lit
  <2>1. c \in Clause /\ l \in Lit
    BY <1>0, TrailEntry, LitFacts DEF TypeOK, Clause
  <2>2. phase = "analyze" /\ added' = added /\ trail' = Assigned(Unwound(k), l, k, c)
    BY <1>13 DEF Learn
  <2>3. \A d \in db : ~d.red => d \in db'
    BY <1>13 DEF Learn
  <2> HIDE DEF c, l
  <2>4. RootUnits \subseteq RootUnits'
    BY <1>0, <2>1, <2>2, JumpKeepsRoots
  <2> QED BY <1>1, <2>2, <2>3, <2>4
<1>14. CASE UNCHANGED vars
  <2>1. phase # "unsat" /\ UNCHANGED <<trail, db, added>>
    BY <1>14 DEF vars
  <2> QED BY <1>1, <2>1 DEF RootUnits, TrueLits, RootTrue
<1> QED BY <1>2, <1>4, <1>6, <1>8, <1>9, <1>10, <1>11, <1>12, <1>13, <1>14 DEF Next, Analyze

\* Throwing redundant clauses away, and replacing clauses by strengthened ones,
\* never loses the formula.
THEOREM FormulaKept == Spec => []KeepsFormula
BY TrailInit, TrailStep, AnalysisInit, AnalysisStep, KeptInit, KeptStep, KeptIsKept, PTL DEF Spec
=============================================================================
