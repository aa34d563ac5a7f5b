------------------------------ MODULE MCStartup ------------------------------
(***************************************************************************)
(* Startup with documents of two and three cells: the user's settings and  *)
(* list are longer than the defaults, and the two trees give dictionaries  *)
(* of different lengths, so that a short document written over a long one  *)
(* leaves a rest.                                                          *)
(***************************************************************************)
EXTENDS Startup, TLC

CONSTANTS defaults, own, small, large

MCUserSettings == {own}
MCTrees == {small, large}
MCCells == defaults :> 2 @@ own :> 3 @@ small :> 2 @@ large :> 3

Alike == Permutations(Procs)
=============================================================================
