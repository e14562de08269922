----------------------------- MODULE MCCaseRun -----------------------------
(* CaseRun with two interchangeable CLI processes at the same case.         *)
EXTENDS CaseRun, TLC

CONSTANTS p1, p2
MCProcs == {p1, p2}
=============================================================================
