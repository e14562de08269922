\* The same, asking whether a failed pull ever leaves the pull to containers.run.
SPECIFICATION Spec
CONSTANTS
    p1 = p1
    p2 = p2
    Calls <- MCCalls
    StallAfter = 2
    Poll = 1
    Turn = 1
    MaxEvents = 1
    MaxFaults = 2
INVARIANTS
    NoImplicitPull
