----------------------------- MODULE MCRunSystem -----------------------------
(***************************************************************************)
(* Small instances of the run life cycle: every submission asks for the    *)
(* same work. The symmetry of the ids is for safety runs only: no          *)
(* definition tells two executions, or two submissions, apart.             *)
(***************************************************************************)
EXTENDS RunSystem, TLC

SameWork == [r \in Runs |-> "w"]

AllFaults == FaultKinds
Symmetry == Permutations(Runs) \union Permutations(Executors)
==============================================================================
