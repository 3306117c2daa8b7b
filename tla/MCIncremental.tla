--------------------------- MODULE MCIncremental ---------------------------
(***************************************************************************)
(* Instances of Incremental: the calls of two users before two or three    *)
(* 'solve'.                                                                *)
(***************************************************************************)
EXTENDS Incremental

Add(c) == [op |-> "add", arg |-> c]
Assuming(L) == [n \in DOMAIN L |-> [op |-> "assume", arg |-> L[n]]]
Constraining(c) == [op |-> "constrain", arg |-> c]

User(chrono, ilb, ilbassumptions, rounds) ==
  [chrono |-> chrono, ilb |-> ilb, ilbassumptions |-> ilbassumptions, rounds |-> rounds]

LateInputs ==
  {User("on", TRUE, TRUE,
        << <<Add(<<1, 2, 3>>)>> \o Assuming(<<1, 2>>),
           Assuming(<<1, 2, 3>>) \o <<Add(<<-3, -1>>)>> >>)}

Long == {<< <<Add(<<-1, -3, 4>>), Add(<<-1, -3, -4>>), Add(<<1, 2, 3>>)>> \o Assuming(<<1, 2>>),
            <<Add(<<-2, 4>>), Add(<<-4, 3, 2>>)>> \o Assuming(<<1>>),
            <<Add(<<-1, -2, -4>>), Constraining(<<3, -1>>)>> \o Assuming(<<2>>) >>,
         << <<Add(<<1, 2>>), Add(<<-1, 2, 3>>)>>, 
            <<Add(<<-2, -3>>), Add(<<-2, 3, 4>>)>>,
            Assuming(<<-4, 3>>) >>}
\* Units, a clause that is false when it comes, assumptions that are false on the
\* root level or clash, constraints that are empty, true or shrunken.
Short == {<< <<Add(<<1, 2>>)>> \o Assuming(<<3, -3>>),
             <<Add(<<-2>>), Add(<<-1, 3, -2>>)>> \o Assuming(<<4, -1>>),
             <<Add(<<-3, -4, -1>>), Constraining(<<2, -1>>)>> >>,
          << <<Add(<<1, 2, 3>>)>> \o Assuming(<<-1, -2>>),
             <<Add(<<-3, -4>>), Add(<<1>>), Add(<<-3, 4>>)>> \o Assuming(<<2, 2>>) \o <<Constraining(<<3, -2>>)>>,
             <<Add(<<-1, 3>>), Add(<<1, -1>>), Constraining(<<1, 4>>)>> \o Assuming(<<-4>>) >>,
          << <<Add(<<1, 2>>), Add(<<1, -2>>), Constraining(<<2, 3>>)>> \o Assuming(<<-2>>),
             <<Add(<<-1, 2>>), Add(<<-1, -2, 4>>)>> \o Assuming(<<4, -3>>),
             <<Add(<<-1, -2, -4>>)>> >>,
          << <<Add(<<-1, 2>>), Add(<<-2, 3>>), Add(<<-3, 4>>)>> \o Assuming(<<1, -4>>),
             <<Add(<<-3, -4>>), Constraining(<<3, 1, 2>>)>> >>}

MCInputs == {User(chrono, TRUE, TRUE, rounds) : chrono \in {"off", "on", "always", "highest"}, rounds \in Long \cup Short}
            \cup {User("on", ilb, FALSE, rounds) : ilb \in BOOLEAN, rounds \in Short}
=============================================================================
