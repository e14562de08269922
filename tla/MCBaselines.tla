---------------------------- MODULE MCBaselines ----------------------------
(* Baselines with two CLI processes, one verdict key, and a run that may    *)
(* come to an error (of the sim or the oracle), a boolean, a number or null. *)
EXTENDS Baselines, TLC

CONSTANTS p1, p2, k1
MCProcs == {p1, p2}
MCKeys == {k1}
Symmetry == Permutations(MCProcs)

Says(kind, value) ==
    [sim |-> "ok", oracle |-> "ok", says |-> [k \in MCKeys |-> [kind |-> kind, value |-> value]]]
Silent(sim, oracle) == [sim |-> sim, oracle |-> oracle, says |-> NoVerdict]

MCRaws ==
    {Says("check", 0), Says("check", 1), Says("metric", 1), Says("null", 0),
     Silent("died", "none"), Silent("ok", "none"), Silent("ok", "ok")}

MCStored == {[kind |-> "check", sum |-> 1, n |-> 1], [kind |-> "check", sum |-> 1, n |-> 2],
             [kind |-> "metric", sum |-> 1, n |-> 1]}
=============================================================================
