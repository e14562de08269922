------------------------------ MODULE Verdicts ------------------------------
(***************************************************************************)
(* What a run is worth: contract/verdict.py (one run's exit codes and      *)
(* verdict), report/aggregate.py (the fold of a case's repeats, and the    *)
(* exit code), and baselines.py (the rows of a case and their comparison). *)
(* Pure operators; a float ratio or mean is the exact fraction it rounds:  *)
(* equal fractions give equal floats, and those of a few runs differ.      *)
(***************************************************************************)
EXTENDS Integers, FiniteSets, FiniteSetsExt

CONSTANTS
    Keys,       \* the verdict keys an oracle may print
    NoVerdict,  \* stdout without a flat JSON object
    NoRow       \* a (case, key) the baseline store has no row for

Modes == {"gate", "report_only", "sweep"}   \* a sweep has no oracle

Gates(mode) == mode # "sweep"

\* The value of one key: a boolean (as 0 or 1), a number, or null (which a note or an absent key is like).
Answers ==
    [kind : {"check"}, value : {0, 1}] \cup [kind : {"metric"}, value : Int]
        \cup [kind : {"null"}, value : {0}]

\* One run as the execution seam saw it.  "died": a nonzero rc, a timeout or a fault of
\* the platform; "none": not run.
RawRuns ==
    [sim : {"ok", "died"}, oracle : {"none", "ok", "died"},
     says : [Keys -> Answers] \cup {NoVerdict}]

\* The oracle runs in gate mode, after a sim that ended well.
Possible(mode, raw) ==
    /\ raw.oracle = "none" <=> ~Gates(mode) \/ raw.sim = "died"
    /\ raw.oracle # "ok" => raw.says = NoVerdict

\* A row of the store: a metric's mean, or a check's ratio, which is at most 1.
IsRow(row) ==
    \/ row.kind = "metric"
    \/ row.kind = "check" /\ row.n \in Nat \ {0} /\ row.sum \in 0 .. row.n

Below(a, b) == a.sum * b.n < b.sum * a.n

-----------------------------------------------------------------------------
(* One case: its repeats, as a function.                                   *)

\* classify(): the lane of a run.
Judged(raw) ==
    /\ raw.sim = "ok"
    /\ raw.oracle # "none" => raw.oracle = "ok" /\ raw.says # NoVerdict

JudgedRuns(runs) == {r \in DOMAIN runs : Judged(runs[r])}

\* The judged runs in which a key has a kind: _fold_types() and fold_case().
Saying(runs, k, kind) ==
    {r \in JudgedRuns(runs) : runs[r].oracle = "ok" /\ runs[r].says[k].kind = kind}

TrueRuns(runs, k) == {r \in Saying(runs, k, "check") : runs[r].says[k].value = 1}

Checks(runs) == {k \in Keys : Saying(runs, k, "check") # {}}
Metrics(runs) == {k \in Keys : Saying(runs, k, "metric") # {}}

PassRatio(runs, k) ==
    [kind |-> "check", sum |-> Cardinality(TrueRuns(runs, k)),
     n |-> Cardinality(Saying(runs, k, "check"))]

Mean(runs, k) ==
    LET S == Saying(runs, k, "metric")
    IN [kind |-> "metric", sum |-> MapThenSumSet(LAMBDA r : runs[r].says[k].value, S),
        n |-> Cardinality(S)]

Failed(runs, k) == PassRatio(runs, k).sum < PassRatio(runs, k).n

\* rows_for(): the keys of a case that get a row.  (Bug variant: null ones too.)
AllKeys(runs) == Keys
Written(runs) == Checks(runs) \cup Metrics(runs)

\* The row of a key that was a check in one repeat and a number in another is the
\* number's, which is upserted last.
RowOf(runs, k) == IF k \in Metrics(runs) THEN Mean(runs, k) ELSE PassRatio(runs, k)

\* _compare(): the checks of a case that are below their stored ratio.  (Bug variant:
\* the comparison the wrong way round.)
Rises(ratio, row) == row # NoRow /\ row.kind = "check" /\ Below(row, ratio)
Regresses(ratio, row) == row # NoRow /\ row.kind = "check" /\ Below(ratio, row)

RegressedKeys(runs, stored) ==
    {k \in Checks(runs) : Regresses(PassRatio(runs, k), stored[k])}

-----------------------------------------------------------------------------
(* The whole run: its cases, as a function.                                *)

RanClean(cases) == \E c \in DOMAIN cases : JudgedRuns(cases[c]) # {}
ChecksSomething(cases) == \E c \in DOMAIN cases : Checks(cases[c]) # {}
ChecksFailed(cases) ==
    \E c \in DOMAIN cases : \E k \in Checks(cases[c]) : Failed(cases[c], k)

\* exit_code_of().  (Bug variant: a run that does not gate is never incomplete.)
ExitCodeGateFirst(mode, cases, regressed) ==
    IF mode # "gate" THEN 0
    ELSE IF ~RanClean(cases) THEN 3
    ELSE IF ~ChecksSomething(cases) THEN 2
    ELSE IF ChecksFailed(cases) \/ regressed THEN 1
    ELSE 0
ExitCode(mode, cases, regressed) ==
    IF ~RanClean(cases) THEN 3
    ELSE IF mode # "gate" THEN 0
    ELSE IF ~ChecksSomething(cases) THEN 2
    ELSE IF ChecksFailed(cases) \/ regressed THEN 1
    ELSE 0
=============================================================================
