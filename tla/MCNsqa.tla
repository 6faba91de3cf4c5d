------------------------------- MODULE MCNsqa -------------------------------
(* Instances of Nsqa for model checking.                                   *)
EXTENDS Nsqa, TLC

CONSTANTS n1, n2

NameSymmetry == Permutations(Name)
=============================================================================
