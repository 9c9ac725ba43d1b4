-------------------------- MODULE MCCaseIdentities --------------------------
(* A small instance of CaseIdentities for TLC: the processes are alike. *)
EXTENDS CaseIdentities, TLC

LoopSymmetry == Permutations(Loops)
=============================================================================
