-------------------------------- MODULE Vmtf --------------------------------
(***************************************************************************)
(* The decision queue (variable move to front): a doubly linked list with  *)
(* a time stamp for each variable, and the pointer 'unassigned' behind     *)
(* which every variable is assigned.  Propagation and conflict analysis    *)
(* assign and bump any variables here; the loop that walks the queue takes *)
(* one step for each link, and so does the bumping of a conflict.          *)
(***************************************************************************)
EXTENDS Integers, Sequences, FiniteSets

CONSTANTS
  MaxVar,    \* the variables of all formulas added
  Reverses,  \* the values of opts.reverse
  MaxBumped  \* bound on stats.bumped

ASSUME VmtfAssumption ==
  MaxVar \in Nat /\ MaxBumped \in Nat /\ Reverses \subseteq BOOLEAN

Var == 1 .. MaxVar

VARIABLES
  reverse,     \* opts.reverse
  max_var,     \* the variables enqueued are 1 .. max_var
  prev, next,  \* links
  queue,       \* first, last, unassigned and bumped of Queue
  btab,        \* the time stamps
  bumped,      \* stats.bumped
  trail,       \* the assigned variables
  control,     \* the decision of each level and the trail below it
  pc,          \* "search", or what the program is in the middle of
  res,         \* next_decision_variable_on_queue: the variable looked at
  analyzed     \* the variables of a conflict not yet bumped

links == <<prev, next>>
search == <<trail, control>>
vars == <<reverse, max_var, links, queue, btab, bumped, search, pc, res, analyzed>>

Enqueued == 1 .. max_var
Assigned == {trail[n] : n \in DOMAIN trail}
Level == Len(control)
AboveRoot ==
  IF control = <<>> THEN {} ELSE {trail[n] : n \in control[1].trail + 1 .. Len(trail)}

Init ==
  /\ reverse \in Reverses
  /\ max_var = 0
  /\ prev = [v \in Var |-> 0] /\ next = [v \in Var |-> 0]
  /\ queue = [first |-> 0, last |-> 0, unassigned |-> 0, bumped |-> 0]
  /\ btab = [v \in Var |-> 0] /\ bumped = 0
  /\ trail = <<>> /\ control = <<>>
  /\ pc = "search" /\ res = 0 /\ analyzed = {}

-----------------------------------------------------------------------------
\* init_enqueue: in front with a smaller stamp, or at the end with a new one
EnqueueFront(v) ==
  /\ prev' = [w \in Var |-> IF w = v THEN 0 ELSE IF w = queue.first THEN v ELSE prev[w]]
  /\ next' = [next EXCEPT ![v] = queue.first]
  /\ btab' = [btab EXCEPT ![v] = IF queue.first = 0 THEN 0 ELSE btab[queue.first] - 1]
  /\ queue' = [first |-> v, last |-> IF queue.first = 0 THEN v ELSE queue.last,
               unassigned |-> IF queue.unassigned = 0 THEN v ELSE queue.unassigned,
               bumped |-> IF queue.unassigned = 0 THEN 0 ELSE queue.bumped]
  /\ UNCHANGED bumped

EnqueueBack(v) ==
  /\ next' = [w \in Var |-> IF w = v THEN 0 ELSE IF w = queue.last THEN v ELSE next[w]]
  /\ prev' = [prev EXCEPT ![v] = queue.last]
  /\ btab' = [btab EXCEPT ![v] = bumped + 1]
  /\ queue' = [first |-> IF queue.last = 0 THEN v ELSE queue.first, last |-> v,
               unassigned |-> v, bumped |-> bumped + 1]
  /\ bumped' = bumped + 1

InitEnqueue ==
  /\ pc = "search" /\ control = <<>> /\ max_var < MaxVar
  /\ max_var' = max_var + 1
  /\ IF reverse THEN EnqueueFront(max_var + 1) ELSE EnqueueBack(max_var + 1)
  /\ UNCHANGED <<reverse, search, pc, res, analyzed>>

-----------------------------------------------------------------------------
\* search_assign, of a propagated literal
Propagate(v) ==
  /\ pc = "search" /\ v \in Enqueued \ Assigned
  /\ trail' = Append(trail, v)
  /\ UNCHANGED <<reverse, max_var, links, queue, btab, bumped, control, pc, res, analyzed>>

\* next_decision_variable_on_queue, called by decide and by reuse_trail, when
\* not all variables are assigned.
NextDecision(caller) ==
  /\ pc = "search" /\ Enqueued \ Assigned # {}
  /\ caller = "restart" => Level >= 2
  /\ pc' = caller /\ res' = queue.unassigned
  /\ UNCHANGED <<reverse, max_var, links, queue, btab, bumped, search, analyzed>>

SearchPrevious ==
  /\ pc \in {"decide", "restart"} /\ res \in Assigned
  /\ res' = prev[res]
  /\ UNCHANGED <<reverse, max_var, links, queue, btab, bumped, search, pc, analyzed>>

Found == res \in Enqueued \ Assigned

\* update_queue_unassigned, if the search has left the variable it began with.
WithUnassigned(v) ==
  IF v = queue.unassigned THEN queue
  ELSE [queue EXCEPT !.unassigned = v, !.bumped = btab[v]]

Decide ==
  /\ pc = "decide" /\ Found
  /\ queue' = WithUnassigned(res)
  /\ control' = Append(control, [decision |-> res, trail |-> Len(trail)])
  /\ trail' = Append(trail, res)
  /\ pc' = "search" /\ res' = 0
  /\ UNCHANGED <<reverse, max_var, links, btab, bumped, analyzed>>

\* Mutant: the pointer is never moved to the end again.
PointerStays(q, undone) == q

\* unassign of each literal above the new level
Unassign(q, undone) ==
  IF \E v \in undone : q.bumped < btab[v]
  THEN LET last == CHOOSE v \in undone : \A w \in undone : btab[w] <= btab[v]
       IN [q EXCEPT !.unassigned = last, !.bumped = btab[last]]
  ELSE q

BacktrackFrom(q, k) ==
  /\ trail' = SubSeq(trail, 1, control[k + 1].trail)
  /\ control' = SubSeq(control, 1, k)
  /\ queue' = Unassign(q, {trail[n] : n \in control[k + 1].trail + 1 .. Len(trail)})

\* Mutant: only the first decision is compared.
ReusableFirst(k, limit) == k = 0 \/ btab[control[1].decision] >= limit

\* reuse_trail: level k is kept if no decision up to it is below the limit.
Reusable(k, limit) == \A n \in 1 .. k : btab[control[n].decision] >= limit

Restart ==
  /\ pc = "restart" /\ Found
  /\ \E k \in 0 .. Level :
       /\ Reusable(k, btab[res]) /\ (k < Level => ~Reusable(k + 1, btab[res]))
       /\ IF k < Level THEN BacktrackFrom(WithUnassigned(res), k)
          ELSE queue' = WithUnassigned(res) /\ UNCHANGED search
  /\ pc' = "search" /\ res' = 0
  /\ UNCHANGED <<reverse, max_var, links, btab, bumped, analyzed>>

-----------------------------------------------------------------------------
\* analyze: the variables of a conflict, assigned above the root level
Analyze(S) ==
  /\ pc = "search" /\ Level > 0 /\ S # {}
  /\ S \subseteq AboveRoot
  /\ bumped + Cardinality(S) <= MaxBumped
  /\ pc' = "bump" /\ analyzed' = S
  /\ UNCHANGED <<reverse, max_var, links, queue, btab, bumped, search, res>>

\* analyze_bumped_rank is unsigned: a negative stamp comes after the others.
Rank(v) == IF btab[v] < 0 THEN btab[v] + MaxBumped + MaxVar + 1 ELSE btab[v]

\* Mutant: the predecessor keeps its link to the variable moved.
DequeueHalf(v) ==
  [nxt |-> next,
   prv |-> [w \in Var |-> IF w = next[v] THEN prev[v] ELSE prev[w]]]

NextToBump(v) == v \in analyzed /\ \A w \in analyzed : Rank(v) <= Rank(w)

\* dequeue of a variable that is not the last one
Dequeue(v) ==
  [nxt |-> [w \in Var |-> IF w = prev[v] THEN next[v] ELSE next[w]],
   prv |-> [w \in Var |-> IF w = next[v] THEN prev[v] ELSE prev[w]]]

\* bump_queue; the variables of a conflict are assigned.
MoveToFront(v) ==
  /\ next' = [[Dequeue(v).nxt EXCEPT ![queue.last] = v] EXCEPT ![v] = 0]
  /\ prev' = [Dequeue(v).prv EXCEPT ![v] = queue.last]
  /\ queue' = [queue EXCEPT !.first = IF prev[v] = 0 THEN next[v] ELSE @, !.last = v]
  /\ btab' = [btab EXCEPT ![v] = bumped + 1]
  /\ bumped' = bumped + 1

BumpQueue(v) ==
  /\ pc = "bump" /\ NextToBump(v)
  /\ analyzed' = analyzed \ {v}
  /\ IF next[v] = 0 THEN UNCHANGED <<links, queue, btab, bumped>> ELSE MoveToFront(v)
  /\ UNCHANGED <<reverse, max_var, search, pc, res>>

\* The back jump at the end of analyze.
BackJump(k) ==
  /\ pc = "bump" /\ analyzed = {} /\ k < Level
  /\ BacktrackFrom(queue, k)
  /\ pc' = "search"
  /\ UNCHANGED <<reverse, max_var, links, btab, bumped, res, analyzed>>

\* The variable ranked n, counted from the end of the queue, gets queue.bumped - n.
Restamp(rank) ==
  [v \in Var |-> IF v \in Enqueued THEN queue.bumped - rank[v] ELSE 0]

Ranked(rank, n) ==
  IF \E v \in Enqueued : rank[v] = n THEN CHOOSE v \in Enqueued : rank[v] = n ELSE 0

\* shuffle_queue, on the root level (rephase): a random order
ShuffleQueue ==
  /\ pc = "search" /\ control = <<>> /\ max_var > 0
  /\ \E rank \in [Enqueued -> 0 .. max_var - 1] :
       /\ \A v, w \in Enqueued : v # w => rank[v] # rank[w]
       /\ prev' = [v \in Var |-> IF v \in Enqueued THEN Ranked(rank, rank[v] + 1) ELSE 0]
       /\ next' = [v \in Var |-> IF v \in Enqueued THEN Ranked(rank, rank[v] - 1) ELSE 0]
       /\ btab' = Restamp(rank)
       /\ queue' = [queue EXCEPT !.first = Ranked(rank, max_var - 1),
                                 !.last = Ranked(rank, 0), !.unassigned = Ranked(rank, 0)]
  /\ UNCHANGED <<reverse, max_var, bumped, search, pc, res, analyzed>>

Next ==
  \/ InitEnqueue \/ SearchPrevious \/ Decide \/ Restart \/ ShuffleQueue
  \/ NextDecision("decide") \/ NextDecision("restart")
  \/ \E v \in Var : Propagate(v) \/ BumpQueue(v)
  \/ \E S \in SUBSET Var : Analyze(S)
  \/ \E k \in 0 .. Level : BackJump(k)

Spec == Init /\ [][Next]_vars

-----------------------------------------------------------------------------
TypeOK ==
  /\ reverse \in BOOLEAN /\ max_var \in 0 .. MaxVar
  /\ prev \in [Var -> Var \cup {0}] /\ next \in [Var -> Var \cup {0}]
  /\ queue \in [first : Var \cup {0}, last : Var \cup {0}, unassigned : Var \cup {0},
                bumped : Int]
  /\ btab \in [Var -> Int] /\ bumped \in Nat
  /\ trail \in Seq(Var) /\ control \in Seq([decision : Var, trail : Nat])
  /\ pc \in {"search", "decide", "restart", "bump"} /\ res \in Var \cup {0}
  /\ analyzed \subseteq Var

\* No variable is assigned twice, and each decision stands where its level begins.
TrailOrdered ==
  /\ Assigned \subseteq Enqueued
  /\ \A m, n \in DOMAIN trail : trail[m] = trail[n] => m = n
  /\ \A n \in DOMAIN control : /\ control[n].trail < Len(trail)
                              /\ trail[control[n].trail + 1] = control[n].decision
  /\ \A m, n \in DOMAIN control : m < n => control[m].trail < control[n].trail

\* The variables in S are doubly linked in the order of their stamps: the
\* neighbours of a variable are those with the next smaller and the next larger one.
Linked(S, first, last, prv, nxt, stamp) ==
  \A v \in S :
    /\ prv[v] = 0 <=> first = v
    /\ nxt[v] = 0 <=> last = v
    /\ prv[v] # 0 => prv[v] \in S /\ nxt[prv[v]] = v /\ stamp[prv[v]] < stamp[v]
    /\ nxt[v] # 0 => nxt[v] \in S /\ prv[nxt[v]] = v /\ stamp[v] < stamp[nxt[v]]
    /\ \A x \in S \ {v} : \/ prv[v] # 0 /\ stamp[x] <= stamp[prv[v]]
                          \/ nxt[v] # 0 /\ stamp[nxt[v]] <= stamp[x]

\* The queue holds all variables in the order of their stamps, through every
\* bump and shuffle (queue.hpp).
QueueOrdered ==
  /\ Linked(Enqueued, queue.first, queue.last, prev, next, btab)
  /\ \A end \in {queue.first, queue.last, queue.unassigned} :
       IF max_var = 0 THEN end = 0 ELSE end \in Enqueued
  /\ \A v \in Enqueued : btab[v] <= bumped

\* 'all variables after this one are assigned' (queue.hpp): what lets the search
\* begin there.  The stamp kept beside the pointer is behind the one the variable
\* has got since by a bump only as long as the level of that conflict lasts, and
\* never behind an unassigned variable.
UnassignedBound ==
  /\ max_var > 0 => queue.bumped <= btab[queue.unassigned]
  /\ max_var > 0 /\ queue.unassigned \notin AboveRoot => queue.bumped = btab[queue.unassigned]
  /\ \A v \in Enqueued \ Assigned : btab[v] <= queue.bumped
  /\ queue.bumped <= bumped

\* While the queue is walked, no unassigned variable has been passed, and there
\* is one left to find: the walk does not run off the list (decide.cpp).
SearchFinds ==
  pc \in {"decide", "restart"} =>
    /\ res \in Enqueued /\ Enqueued \ Assigned # {}
    /\ \A v \in Enqueued \ Assigned : btab[v] <= btab[res]

\* The variables still to be bumped stay assigned above the root level.
BumpsAssigned == pc = "bump" => control # <<>> /\ analyzed \subseteq AboveRoot

QueueKept ==
  /\ TypeOK /\ TrailOrdered /\ QueueOrdered /\ UnassignedBound /\ SearchFinds /\ BumpsAssigned

\* A restart keeps a decision only if no unassigned variable has a larger stamp
\* and would be decided in its place (reuse_trail).
ReusedBest ==
  pc = "restart" /\ pc' = "search" =>
    \A n \in DOMAIN control' : \A v \in Enqueued \ Assigned :
      btab[v] <= btab[control[n].decision]

\* Restarts keep the best decisions, in every step.
RestartsReuseBest == [][ReusedBest]_vars

\* The line of variables and the decisions, without pointers and stamps.
Before == {p \in Enqueued \X Enqueued : btab[p[1]] < btab[p[2]]}
Decisions == [n \in DOMAIN control |-> control[n].decision]

Order == INSTANCE DecisionOrder WITH
  known <- Enqueued, before <- Before, assigned <- trail, levels <- Decisions

\* Every decision is the last unassigned variable of the line, a bumped variable
\* goes to its end, and the pointers of the queue change nothing else (queue.hpp,
\* decide.cpp).
DecidesLatest == Order!Spec
=============================================================================
