-------------------------- MODULE MCRebootCoordinator --------------------------
(* Passes are alike: which of them is in progress makes no difference.            *)
EXTENDS RebootCoordinator, TLC

Symmetry == Permutations(Passes)
================================================================================
