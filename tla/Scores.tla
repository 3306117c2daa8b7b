------------------------------- MODULE Scores -------------------------------
(***************************************************************************)
(* The other order of decisions: a binary heap of variables by score       *)
(* (EVSIDS), used in stable mode only but kept up to date in both modes.   *)
(* A score is a number with few digits: it is rounded when all scores are  *)
(* divided because one has reached the limit, as a double is.              *)
(***************************************************************************)
EXTENDS Integers, Sequences, SequencesExt

CONSTANTS
  MaxVar,  \* the variables
  One,     \* the score 1.0, in units of the smallest score
  Limit,   \* scores above are rescaled (1e150)
  Factor   \* 1e3 / opts.scorefactor

ScoresAssumption ==
  /\ MaxVar \in Nat /\ One \in Nat \ {0} /\ Factor \in Nat \ {0} /\ Limit \in Nat
  /\ Limit >= 2 * One /\ Limit >= Factor * One /\ Limit >= MaxVar

Var == 1 .. MaxVar

VARIABLES
  max_var,    \* the variables added are 1 .. max_var
  stable,     \* the mode
  scores,     \* the array of the heap
  stab,       \* the scores
  score_inc,
  trail, control,
  pc,         \* "search", or what the program is in the middle of
  analyzed    \* the variables of a conflict not yet bumped

heap == <<scores, stab, score_inc>>
search == <<trail, control>>
vars == <<max_var, stable, heap, search, pc, analyzed>>

Added == 1 .. max_var
Assigned == ToSet(trail)
Level == Len(control)

Init ==
  /\ max_var = 0 /\ stable \in BOOLEAN
  /\ scores = <<>> /\ stab = [v \in Var |-> 0] /\ score_inc = One
  /\ trail = <<>> /\ control = <<>> /\ pc = "search" /\ analyzed = {}

-----------------------------------------------------------------------------
\* score_smaller: of equal scores the smaller index is the better one.
Less(s, a, b) == s[a] < s[b] \/ (s[a] = s[b] /\ a > b)

Exchange(h, i, j) == [h EXCEPT ![i] = h[j], ![j] = h[i]]

\* A heap with its scores, and the place of the element that moves.
Position == {p \in [stab : [Var -> Nat], heap : Seq(Var), at : Nat] : p.at \in DOMAIN p.heap}
At(s, h, i) == [stab |-> s, heap |-> h, at |-> i]
Moved(p, i) == At(p.stab, Exchange(p.heap, p.at, i), i)

RisesFrom(p) == p.at > 1 /\ Less(p.stab, p.heap[p.at \div 2], p.heap[p.at])
up[p \in Position] == IF RisesFrom(p) THEN up[Moved(p, p.at \div 2)] ELSE p.heap

\* The larger of the children
Child(s, h, i) ==
  IF 2 * i + 1 <= Len(h) /\ Less(s, h[2 * i], h[2 * i + 1]) THEN 2 * i + 1 ELSE 2 * i

SinksFrom(p) ==
  /\ 2 * p.at <= Len(p.heap)
  /\ Less(p.stab, p.heap[p.at], p.heap[Child(p.stab, p.heap, p.at)])
down[p \in Position] ==
  IF SinksFrom(p) THEN down[Moved(p, Child(p.stab, p.heap, p.at))] ELSE p.heap

Place(h, v) == CHOOSE i \in DOMAIN h : h[i] = v

Update(s, h, v) ==
  LET risen == up[At(s, h, Place(h, v))] IN down[At(s, risen, Place(risen, v))]

PushBack(s, h, v) == Update(s, Append(h, v), v)

\* Mutant: the last element is left at the top.
PopOnly(s, h) == SubSeq(<<h[Len(h)]>> \o Tail(h), 1, Len(h) - 1)

PopFront(s, h) ==
  IF Len(h) = 1 THEN <<>>
  ELSE down[At(s, SubSeq(<<h[Len(h)]>> \o Tail(h), 1, Len(h) - 1), 1)]

\* Elements pushed one after the other, but for those on the heap already.
Waiting == [stab : [Var -> Nat], heap : Seq(Var), rest : Seq(Var)]
PushNext(p) ==
  [stab |-> p.stab, rest |-> Tail(p.rest),
   heap |-> IF Head(p.rest) \in ToSet(p.heap) THEN p.heap ELSE PushBack(p.stab, p.heap, Head(p.rest))]
pushed[p \in Waiting] == IF p.rest = <<>> THEN p.heap ELSE pushed[PushNext(p)]
PushAll(s, h, vs) == pushed[[stab |-> s, heap |-> h, rest |-> vs]]

\* The elements in the order they are popped.
PopNext(p) ==
  [stab |-> p.stab, heap |-> PopFront(p.stab, p.heap), rest |-> Append(p.rest, Head(p.heap))]
popped[p \in Waiting] == IF p.heap = <<>> THEN p.rest ELSE popped[PopNext(p)]
PopAll(s, h) == popped[[stab |-> s, heap |-> h, rest |-> <<>>]]

-----------------------------------------------------------------------------
InitScores ==
  /\ pc = "search" /\ control = <<>> /\ max_var < MaxVar
  /\ max_var' = max_var + 1
  /\ scores' = PushBack(stab, scores, max_var + 1)
  /\ UNCHANGED <<stable, stab, score_inc, search, pc, analyzed>>

\* stabilizing() changes the mode between two decisions.
SwitchMode ==
  /\ pc = "search" /\ stable' = ~stable
  /\ UNCHANGED <<max_var, heap, search, pc, analyzed>>

Propagate(v) ==
  /\ pc = "search" /\ v \in Added \ Assigned
  /\ trail' = Append(trail, v)
  /\ UNCHANGED <<max_var, stable, heap, control, pc, analyzed>>

Assume(v) ==
  /\ control' = Append(control, [decision |-> v, trail |-> Len(trail)])
  /\ trail' = Append(trail, v)

\* A decision of the other mode, taken from the queue
DecideOnQueue(v) ==
  /\ pc = "search" /\ ~stable /\ v \in Added \ Assigned
  /\ Assume(v)
  /\ UNCHANGED <<max_var, stable, heap, pc, analyzed>>

\* next_decision_variable_with_best_score, called when not all is assigned
NextDecision(caller) ==
  /\ pc = "search" /\ stable /\ Added \ Assigned # {}
  /\ caller = "restart" => Level >= 2
  /\ pc' = caller
  /\ UNCHANGED <<max_var, stable, heap, search, analyzed>>

PopAssigned ==
  /\ pc \in {"decide", "restart"} /\ scores # <<>> /\ Head(scores) \in Assigned
  /\ scores' = PopFront(stab, scores)
  /\ UNCHANGED <<max_var, stable, stab, score_inc, search, pc, analyzed>>

Decide ==
  /\ pc = "decide" /\ scores # <<>> /\ Head(scores) \notin Assigned
  /\ Assume(Head(scores))
  /\ pc' = "search"
  /\ UNCHANGED <<max_var, stable, heap, analyzed>>

\* unassign of the literals above the new level, in the order of the trail
Unassign(undone) == PushAll(stab, scores, undone)

Backtrack(k) ==
  /\ trail' = SubSeq(trail, 1, control[k + 1].trail)
  /\ control' = SubSeq(control, 1, k)
  /\ scores' = Unassign(SubSeq(trail, control[k + 1].trail + 1, Len(trail)))

\* reuse_trail
Reusable(k, best) == \A n \in 1 .. k : ~Less(stab, control[n].decision, best)

Restart ==
  /\ pc = "restart" /\ scores # <<>> /\ Head(scores) \notin Assigned
  /\ \E k \in 0 .. Level :
       /\ Reusable(k, Head(scores)) /\ (k < Level => ~Reusable(k + 1, Head(scores)))
       /\ IF k < Level THEN Backtrack(k) ELSE UNCHANGED <<search, scores>>
  /\ pc' = "search"
  /\ UNCHANGED <<max_var, stable, stab, score_inc, analyzed>>

-----------------------------------------------------------------------------
\* analyze: the variables of a conflict, assigned above the root level
Analyze(S) ==
  /\ pc = "search" /\ Level > 0 /\ S # {}
  /\ S \subseteq ToSet(SubSeq(trail, control[1].trail + 1, Len(trail)))
  /\ pc' = "bump" /\ analyzed' = S
  /\ UNCHANGED <<max_var, stable, heap, search>>

\* rescale_variable_scores: the divisor is the largest score or the increment.
Divider == CHOOSE d \in {score_inc} \cup {stab[v] : v \in Added} :
             \A v \in Added : d >= stab[v] /\ d >= score_inc
Scaled(x) == (x * One) \div Divider
ScaledInc == IF Scaled(score_inc) = 0 THEN 1 ELSE Scaled(score_inc)

Rescale ==
  /\ stab' = [v \in Var |-> Scaled(stab[v])]
  /\ score_inc' = ScaledInc

\* scores.update, if the variable has not been popped.
Reorder(v) == scores' = IF v \in ToSet(scores) THEN Update(stab', scores, v) ELSE scores

\* bump_variable_score: rescaling when the limit is hit is a step of its own.
BumpVariableScore(v) ==
  /\ pc = "bump" /\ stable /\ v \in analyzed
  /\ IF stab[v] + score_inc > Limit
     THEN Rescale /\ UNCHANGED <<scores, analyzed>>
     ELSE /\ stab' = [stab EXCEPT ![v] = stab[v] + score_inc]
          /\ Reorder(v)
          /\ analyzed' = analyzed \ {v} /\ UNCHANGED score_inc
  /\ UNCHANGED <<max_var, stable, search, pc>>

\* bump_variable_score_inc, after all variables have been bumped
BumpScoreInc ==
  /\ pc = "bump" /\ stable /\ analyzed = {}
  /\ IF score_inc * Factor > Limit THEN Rescale /\ pc' = pc
     ELSE score_inc' = score_inc * Factor /\ pc' = "jump" /\ UNCHANGED stab
  /\ UNCHANGED <<max_var, stable, scores, search, analyzed>>

\* In the other mode the queue is bumped.
BumpQueue ==
  /\ pc = "bump" /\ ~stable
  /\ analyzed' = {} /\ pc' = "jump"
  /\ UNCHANGED <<max_var, stable, heap, search>>

BackJump(k) ==
  /\ pc = "jump" /\ k < Level
  /\ Backtrack(k)
  /\ pc' = "search"
  /\ UNCHANGED <<max_var, stable, stab, score_inc, analyzed>>

\* shuffle_scores, on the root level: all variables in a random order, or those
\* on the heap in the order they are popped, which reverses it.
ShuffleScores ==
  /\ pc = "search" /\ stable /\ control = <<>> /\ max_var > 0
  /\ \E shuffle \in {PopAll(stab, scores)} \cup
                    {p \in [Added -> Added] : \A v, w \in Added : p[v] = p[w] => v = w} :
       /\ stab' = [v \in Var |-> IF \E n \in DOMAIN shuffle : shuffle[n] = v
                                 THEN (CHOOSE n \in DOMAIN shuffle : shuffle[n] = v) - 1
                                 ELSE stab[v]]
       /\ scores' = PushAll(stab', <<>>, shuffle)
       /\ score_inc' = Len(shuffle)
  /\ score_inc' > 0
  /\ UNCHANGED <<max_var, stable, search, pc, analyzed>>

Next ==
  \/ InitScores \/ SwitchMode \/ PopAssigned \/ Decide \/ Restart
  \/ NextDecision("decide") \/ NextDecision("restart")
  \/ BumpScoreInc \/ BumpQueue \/ ShuffleScores
  \/ \E v \in Var : Propagate(v) \/ DecideOnQueue(v) \/ BumpVariableScore(v)
  \/ \E S \in SUBSET Var : Analyze(S)
  \/ \E k \in 0 .. Level : BackJump(k)

Spec == Init /\ [][Next]_vars

-----------------------------------------------------------------------------
TypeOK ==
  /\ max_var \in 0 .. MaxVar /\ stable \in BOOLEAN
  /\ \A i, j \in DOMAIN scores : scores[i] \in Added /\ (scores[i] = scores[j] => i = j)
  /\ stab \in [Var -> 0 .. Limit] /\ score_inc \in 1 .. Limit
  /\ Assigned \subseteq Added /\ analyzed \subseteq Assigned
  /\ pc \in {"search", "decide", "restart", "bump", "jump"}

\* A variable that has been popped is assigned: through both modes, back jumps
\* and restarts no variable that could be decided is missing on the heap, so
\* front() is never asked of an empty heap (decide.cpp, unassign); and no element
\* has a score above that of its parent, through bumps of variables on and off
\* the heap and through rounding (heap.hpp).
HeapKept ==
  /\ TypeOK
  /\ Added \ Assigned \subseteq ToSet(scores)
  /\ \A i \in 2 .. Len(scores) : stab[scores[i]] <= stab[scores[i \div 2]]

\* Every decision in stable mode is an unassigned variable with the best score,
\* whatever was propagated, popped or rescaled in between (decide.cpp).
DecidedBest ==
  pc = "decide" /\ pc' = "search" =>
    \A v \in Added \ Assigned : stab[v] <= stab[Last(control').decision]

\* A restart keeps only decisions at least as good as what it leaves unassigned.
ReusedBest ==
  pc = "restart" /\ pc' = "search" =>
    \A n \in DOMAIN control', v \in Added \ Assigned :
      stab[v] <= stab[control'[n].decision]

\* Both, in a heap that stays one.
BestDecided == DecidedBest /\ ReusedBest /\ HeapKept'
=============================================================================
