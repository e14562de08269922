\* Two case runs, samples stale after three gaps, two faults anywhere.
SPECIFICATION Spec
CONSTANTS
    c1 = c1
    c2 = c2
    Cases <- MCCases
    MaxGap = 1
    StaleAfter = 3
    MaxFaults = 2
INVARIANTS
    TypeOK
    StaleIsDeadOrOff
    CleanRunIsRecorded
PROPERTIES
    DeadIsSeen
    ImplementsJournal
