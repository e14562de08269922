\* Two calls for one image: a window of two units, an interval of one, an event per pull
\* and two faults.
SPECIFICATION Spec
CONSTANTS
    p1 = p1
    p2 = p2
    Calls <- MCCalls
    StallAfter = 2
    Poll = 1
    Turn = 1
    MaxEvents = 1
    MaxFaults = 2
INVARIANTS
    TypeOK
    PulledIsBacked
    GivenUpInTime
PROPERTIES
    StallIsSilence
    EveryCallIsAnswered
