---------------------------- MODULE MCVerifyJob ----------------------------
(* Finite instances of VerifyJob for TLC.                                  *)
EXTENDS VerifyJob, TLC

Symmetry == Permutations(Runners) \cup Permutations(Jobs)
=============================================================================
