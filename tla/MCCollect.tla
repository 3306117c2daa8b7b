----------------------------- MODULE MCCollect -----------------------------
(***************************************************************************)
(* Instances of Collect.                                                   *)
(***************************************************************************)
EXTENDS Collect

MCFormula == << <<1, 2, 3>>, <<1, -2, 3>>, <<1, -3>> >>
=============================================================================
