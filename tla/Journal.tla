------------------------------ MODULE Journal ------------------------------
(***************************************************************************)
(* What the run history of cv_infra/history.py promises of one run, in     *)
(* whatever order its threads write and its reader reads: facts are only   *)
(* added; while the log is kept every case run that ends is recorded, once *)
(* it is given up nothing more is, so that a result that is recorded is of *)
(* a complete record; and what the dashboard says only moves on: from a    *)
(* run nobody knows to one that runs, and from there either to its result  *)
(* or, if the log was given up, to a stale run.  RunLog.tla is shown to    *)
(* implement it.                                                           *)
(***************************************************************************)
CONSTANT Cases

VARIABLES
    log,        \* "new", "kept" or "given_up"
    ended,      \* the case runs that have ended
    recorded,   \* those whose end is recorded
    row,        \* what is recorded of the run: "none", "running", "done"
    answer      \* what the dashboard says: as row, or "stale"

vars == <<log, ended, recorded, row, answer>>

Init ==
    /\ log = "new"
    /\ ended = {} /\ recorded = {}
    /\ row = "none" /\ answer = "none"

Open ==
    /\ log = "new" /\ log' = "kept"
    /\ UNCHANGED <<ended, recorded, row, answer>>

GiveUp ==
    /\ log # "given_up" /\ log' = "given_up"
    /\ UNCHANGED <<ended, recorded, row, answer>>

Register ==
    /\ log = "kept"
    /\ row = "none" /\ row' = "running"
    /\ UNCHANGED <<log, ended, recorded, answer>>

\* A kept log records the end of a case run with it.
End(c) ==
    /\ log # "new" /\ row # "done"
    /\ c \notin ended /\ ended' = ended \cup {c}
    /\ recorded' = IF log = "kept" THEN recorded \cup {c} ELSE recorded
    /\ UNCHANGED <<log, row, answer>>

\* The last fact.
Finish ==
    /\ log = "kept"
    /\ row = "running" /\ row' = "done"
    /\ UNCHANGED <<log, ended, recorded, answer>>

\* An answer may lag behind the record, but never behind an earlier answer.
Say ==
    /\ \/ row # "none" /\ answer \in {"none", "running"} /\ answer' = "running"
       \/ row = "done" /\ answer # "stale" /\ answer' = "done"
       \/ row = "running" /\ log = "given_up" /\ answer' = "stale"
    /\ UNCHANGED <<log, ended, recorded, row>>

Next == Open \/ GiveUp \/ Register \/ Finish \/ Say \/ (\E c \in Cases : End(c))

Spec == Init /\ [][Next]_vars
=============================================================================
