--------------------------- MODULE DecisionOrder ---------------------------
(***************************************************************************)
(* What the decision queue promises to the search, without its pointers    *)
(* and stamps: the variables stand in a line, the last unassigned one is   *)
(* decided next, and a bumped variable goes to the end of the line.        *)
(***************************************************************************)
EXTENDS Integers, Sequences

VARIABLES
  known,     \* the variables in the line
  before,    \* their order: the pairs <<v, w>> with v before w
  assigned,  \* the assigned variables in the order of their assignment
  levels     \* for each level, its decision

vars == <<known, before, assigned, levels>>

Line(S, order) ==
  /\ order \subseteq S \X S
  /\ \A v, w \in S : v # w => (<<v, w>> \in order <=> <<w, v>> \notin order)
  /\ \A v \in S : <<v, v>> \notin order
  /\ \A u, v, w \in S : <<u, v>> \in order /\ <<v, w>> \in order => <<u, w>> \in order

Free == known \ {assigned[n] : n \in DOMAIN assigned}

Init == known = {} /\ before = {} /\ assigned = <<>> /\ levels = <<>>

Extend(v) ==
  /\ v \notin known
  /\ known' = known \cup {v}
  /\ before' = before \cup (known \X {v}) \/ before' = before \cup ({v} \X known)
  /\ UNCHANGED <<assigned, levels>>

Assign(v) ==
  /\ v \in Free
  /\ assigned' = Append(assigned, v)
  /\ UNCHANGED <<known, before, levels>>

Decide(v) ==
  /\ v \in Free /\ \A w \in Free \ {v} : <<w, v>> \in before
  /\ assigned' = Append(assigned, v)
  /\ levels' = Append(levels, v)
  /\ UNCHANGED <<known, before>>

Bump(v) ==
  /\ v \in known \ Free
  /\ before' = {p \in before : p[1] # v /\ p[2] # v} \cup ((known \ {v}) \X {v})
  /\ UNCHANGED <<known, assigned, levels>>

Backtrack(k) ==
  /\ k \in 0 .. Len(levels) - 1
  /\ levels' = SubSeq(levels, 1, k)
  /\ \E n \in DOMAIN assigned :
       assigned[n] = levels[k + 1] /\ assigned' = SubSeq(assigned, 1, n - 1)
  /\ UNCHANGED <<known, before>>

\* Any new order, on the root level.
Shuffle ==
  /\ levels = <<>>
  /\ Line(known, before')
  /\ UNCHANGED <<known, assigned, levels>>

Next ==
  \/ Shuffle
  \/ \E v \in known' : Extend(v) \/ Assign(v) \/ Decide(v) \/ Bump(v)
  \/ \E k \in 0 .. Len(levels) : Backtrack(k)

Spec == Init /\ [][Next]_vars
=============================================================================
