\* Two processes at one case, with or without oracle and scratch root; two faults.
SPECIFICATION Spec
CONSTANTS
    p1 = p1
    p2 = p2
    Procs <- MCProcs
    Nobody = Nobody
    MaxFaults = 2
INVARIANT
    LeftoverIsOnlyDiskSpace
