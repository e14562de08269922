----------------------------- MODULE MCCasePlan -----------------------------
(* CasePlan over every model of up to three lines, and requests that differ *)
(* from a right one in one thing.                                           *)
EXTENDS CasePlan

Axis(n, v) == [kind |-> "axis", name |-> n, values |-> v]
MCNames == {"a", "b", "iffy", "help"}

MCLines ==
    {Axis("a", 2), Axis("b", 2), Axis("b", 0), Axis("iffy", 1), Axis("help", 1),
     [kind |-> "constraint", refs |-> {"a"}], [kind |-> "constraint", refs |-> {"a", "b"}],
     [kind |-> "other"]}

MCModels == UNION {[1 .. n -> MCLines] : n \in 0 .. 3}

MCEdits == {<<Axis("b", 2)>>}

MCVerify(c, f, a, k) ==
    [caller |-> "verify", consent |-> c, fields |-> f, accepts |-> a, order |-> k, repeats |-> 2]
MCPlan(k, os, auto, w, m) ==
    [caller |-> "plan", accepts |-> TRUE, order |-> k, orders |-> os, auto |-> auto,
     repeats |-> 1, wallclock |-> w, cost |-> 2, concurrency |-> 1, maxCases |-> m]

MCRequests ==
    {MCVerify(TRUE, TRUE, TRUE, k) : k \in 1 .. 3}
      \cup {MCVerify(FALSE, TRUE, TRUE, 1), MCVerify(TRUE, FALSE, TRUE, 1),
            MCVerify(TRUE, TRUE, FALSE, 1)}
      \cup {MCPlan(k, os, FALSE, w, m) : k \in 1 .. 2, os \in {{}, {1, 2}}, w \in {1, 5, 9},
                                       m \in {1, 9}}
      \cup {MCPlan(1, {}, TRUE, w, 9) : w \in {13, 24}}
=============================================================================
