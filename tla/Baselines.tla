----------------------------- MODULE Baselines -----------------------------
(***************************************************************************)
(* The baseline store of a runner host (baselines.py) and the CLI          *)
(* processes that use it, from the end of their case loop to the exit code *)
(* of their report (cli/main.py run_verify).  Comparing and updating are   *)
(* two connections, so that another process may write between them.  Every *)
(* access is best effort: it may fail, and the run goes on without it.     *)
(***************************************************************************)
EXTENDS Verdicts

CONSTANTS
    Procs,      \* CLI processes of one host
    NCases,     \* cases of the plan, in array order
    Repeats,    \* runs of each case
    Raws,       \* what one run may come to
    Stored      \* the rows earlier runs may have left

ASSUME BaselinesAssumption ==
    /\ NCases \in Nat
    /\ Repeats \in Nat \ {0}
    /\ Raws \subseteq RawRuns
    /\ \A row \in Stored : IsRow(row)
    /\ NoRow \notin Stored
    /\ NoVerdict \notin [Keys -> Answers]

VARIABLES
    db,         \* the store: a row or NoRow per case and key
    spec,       \* per process: the mode and --update-baseline
    ran,        \* per process: the cases that ran, each the raw result of its repeats
    pc,
    available,  \* per process: the comparison could be made
    read,       \* per process: the rows it was made with, the details' "baseline"
    regressed,  \* per process: the (case, key) pairs found regressed
    updated,    \* per process: upsert_best_effort's answer
    code        \* per process: the report's exit code, or NoCode

outcome == <<available, read, regressed>>
vars == <<db, spec, ran, pc, outcome, updated, code>>

Cases == 1 .. NCases
NoCode == -1
Specs == [mode : Modes, update : BOOLEAN]

\* The budget cuts whole cases off the end.
RunsOf(mode) == [1 .. Repeats -> {raw \in Raws : Possible(mode, raw)}]
Prefixes(mode) == UNION {[1 .. n -> RunsOf(mode)] : n \in 0 .. NCases}

Nothing == [c \in {} |-> NoRow]

Init ==
    /\ db \in [Cases -> [Keys -> Stored \cup {NoRow}]]
    /\ spec \in [Procs -> Specs]
    /\ ran \in [Procs -> UNION {Prefixes(mode) : mode \in Modes}]
    /\ \A p \in Procs : ran[p] \in Prefixes(spec[p].mode)
    /\ pc = [p \in Procs |-> "compare"]
    /\ available = [p \in Procs |-> FALSE]
    /\ read = [p \in Procs |-> Nothing]
    /\ regressed = [p \in Procs |-> {}]
    /\ updated = [p \in Procs |-> FALSE]
    /\ code = [p \in Procs |-> NoCode]

RegressedIn(cases, stored) ==
    {ck \in (DOMAIN cases) \X Keys : ck[2] \in RegressedKeys(cases[ck[1]], stored[ck[1]])}

\* compare_best_effort(): one read of the rows of this run's cases, or no answer at all.
Compare(p) ==
    /\ pc[p] = "compare"
    /\ pc' = [pc EXCEPT ![p] = "upsert"]
    /\ \/ /\ available' = [available EXCEPT ![p] = TRUE]
          /\ read' = [read EXCEPT ![p] = [c \in DOMAIN ran[p] |-> db[c]]]
          /\ regressed' = [regressed EXCEPT ![p] = RegressedIn(ran[p], db)]
       \/ UNCHANGED outcome
    /\ UNCHANGED <<db, spec, ran, updated, code>>

\* The store with a run's rows in it, in one transaction.
Upserted(cases) ==
    [c \in Cases |->
        IF c \notin DOMAIN cases THEN db[c]
        ELSE [k \in Keys |-> IF k \in Written(cases[c]) THEN RowOf(cases[c], k)
                             ELSE db[c][k]]]

\* (Bug variant: a run that was not asked to updates too.)
AlwaysUpdates(p) == TRUE
Updates(p) == spec[p].update

\* upsert_best_effort() if the run was asked to, and then the report with its exit code.
UpsertAndReport(p) ==
    /\ pc[p] = "upsert"
    /\ pc' = [pc EXCEPT ![p] = "done"]
    /\ \/ /\ Updates(p)
          /\ db' = Upserted(ran[p])
          /\ updated' = [updated EXCEPT ![p] = TRUE]
       \/ UNCHANGED <<db, updated>>
    /\ code' = [code EXCEPT ![p] =
                    ExitCode(spec[p].mode, ran[p], regressed[p] # {})]
    /\ UNCHANGED <<spec, ran, outcome>>

\* Every process has its exit code: nothing more happens.
Done == (\A p \in Procs : pc[p] = "done") /\ UNCHANGED vars

Next == (\E p \in Procs : Compare(p) \/ UpsertAndReport(p)) \/ Done

Spec == Init /\ [][Next]_vars

-----------------------------------------------------------------------------
(* Properties.                                                             *)

\* The types of the variables: in particular a check's stored ratio is at most 1.
TypeOK ==
    /\ db = [c \in Cases |-> [k \in Keys |-> db[c][k]]]
    /\ \A c \in Cases, k \in Keys : db[c][k] # NoRow => IsRow(db[c][k])
    /\ spec \in [Procs -> Specs]
    /\ DOMAIN ran = Procs
    /\ \A p \in Procs : ran[p] \in Prefixes(spec[p].mode)
    /\ pc \in [Procs -> {"compare", "upsert", "done"}]
    /\ available \in [Procs -> BOOLEAN]
    /\ DOMAIN read = Procs
    /\ regressed \in [Procs -> SUBSET (Cases \X Keys)]
    /\ updated \in [Procs -> BOOLEAN]
    /\ code \in [Procs -> {NoCode, 0, 1, 2, 3}]

\* The judged runs of a process, and what an oracle's boolean said in them.
Judgements(p) ==
    {cr \in (DOMAIN ran[p]) \X (1 .. Repeats) : Judged(ran[p][cr[1]][cr[2]])}
Said(p, value) ==
    \E cr \in Judgements(p), k \in Keys :
        LET raw == ran[p][cr[1]][cr[2]]
        IN raw.oracle = "ok" /\ raw.says[k] = [kind |-> "check", value |-> value]

Deserved(p) ==
    IF Judgements(p) = {} THEN 3
    ELSE IF spec[p].mode # "gate" THEN 0
    ELSE IF Said(p, 0) THEN 1
    ELSE IF Said(p, 1) THEN 0
    ELSE 2

\* The exit code is what cli/exit_codes.py says of the run's own results - 3 if nothing
\* was judged, 1 only if an oracle said false, 2 if none said a boolean - whatever the
\* baseline holds, whoever writes it meanwhile, and whichever access to it fails.
ExitCodeIsDeserved == \A p \in Procs : pc[p] = "done" => code[p] = Deserved(p)

MovedByJudgement(c, k) ==
    \E p \in Procs :
        /\ pc[p] = "upsert" /\ pc'[p] = "done" /\ spec[p].update
        /\ \E cr \in Judgements(p) :
            /\ cr[1] = c
            /\ ran[p][c][cr[2]].oracle = "ok"
            /\ ran[p][c][cr[2]].says[k].kind = db'[c][k].kind

\* A stored row only moves to what the judged runs of an updating process made of that
\* key: an errored run, a case that did not run and a null never touch the reference.
BaselineMovesByJudgement ==
    [][\A c \in Cases, k \in Keys :
        db'[c][k] # db[c][k] => MovedByJudgement(c, k)]_vars

LowersCheck(c, k) ==
    /\ db[c][k] # NoRow /\ db[c][k].kind = "check" /\ db'[c][k].kind = "check"
    /\ Below(db'[c][k], db[c][k])

\* A process that lowers a check's reference has reported the regression: it compared
\* before it wrote, unless the comparison failed or another process wrote in between.
LoweredIsReported ==
    [][\A p \in Procs, c \in Cases, k \in Keys :
        /\ pc[p] = "upsert" /\ pc'[p] = "done"
        /\ available[p] /\ c \in DOMAIN ran[p] /\ read[p][c][k] = db[c][k]
        /\ LowersCheck(c, k)
        => <<c, k>> \in regressed[p]]_vars
=============================================================================
