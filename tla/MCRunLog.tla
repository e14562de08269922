------------------------------ MODULE MCRunLog ------------------------------
(* RunLog with two case runs; a sample is stale after three missed ones.    *)
EXTENDS RunLog

CONSTANTS c1, c2
MCCases == {c1, c2}
=============================================================================
