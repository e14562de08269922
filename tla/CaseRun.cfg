\* Two processes at one case, with or without oracle and scratch root; one fault.
SPECIFICATION Spec
CONSTANTS
    p1 = p1
    p2 = p2
    Procs <- MCProcs
    Nobody = Nobody
    MaxFaults = 1
INVARIANTS
    TypeOK
    HandlesAreMine
    EvidenceIsStill
    EvidenceOfTheLastAttempt
    NothingLeftBehind
PROPERTIES
    EveryRunIsJudged
