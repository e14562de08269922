------------------------------ MODULE Dispatch ------------------------------
(***************************************************************************)
(* What cv_infra/scheduler.py promises its caller (cli/main.py _run_cases),*)
(* whatever governor decides the pace: items start in array order, never   *)
(* more than Limit at once, and dispatch comes back only when every item   *)
(* it started has ended - with all of them, with a truncated prefix, or    *)
(* with the fault of one of them.  Scheduler.tla is shown to implement it. *)
(***************************************************************************)
EXTENDS Integers, FiniteSets

CONSTANTS
    NItems,     \* how many items (cases) the caller hands over
    Limit       \* the most items that may be in flight at once

VARIABLES
    started,    \* items 1 .. started have been started
    result,     \* per item: "none" until it ends, then "ok" or "fault"
    outcome     \* "running" until dispatch comes back

vars == <<started, result, outcome>>

Items == 1 .. NItems

InFlight == {i \in 1 .. started : result[i] = "none"}

Init ==
    /\ started = 0
    /\ result = [i \in Items |-> "none"]
    /\ outcome = "running"

\* The next item in array order starts.
Start ==
    /\ outcome = "running"
    /\ started < NItems
    /\ Cardinality(InFlight) < Limit
    /\ started' = started + 1
    /\ UNCHANGED <<result, outcome>>

\* A started item ends, with a result or with a platform fault.
End(i) ==
    /\ outcome = "running"
    /\ i \in InFlight
    /\ \E r \in {"ok", "fault"} : result' = [result EXCEPT ![i] = r]
    /\ UNCHANGED <<started, outcome>>

\* Everything started has ended: a fault outweighs the results, and a run that
\* left items out says so.
Return ==
    /\ outcome = "running"
    /\ InFlight = {}
    /\ outcome' = IF \E i \in 1 .. started : result[i] = "fault" THEN "raised"
                  ELSE IF started = NItems THEN "complete" ELSE "truncated"
    /\ UNCHANGED <<started, result>>

Next == Start \/ (\E i \in Items : End(i)) \/ Return

Spec == Init /\ [][Next]_vars /\ WF_vars(Next)
=============================================================================
