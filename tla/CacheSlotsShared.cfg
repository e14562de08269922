\* Three case runs, two slots (so that one may find none), three faults.
SPECIFICATION Spec
CONSTANTS
    h1 = h1
    h2 = h2
    h3 = h3
    Holders <- MCHolders
    NoHolder = NoHolder
    NSlots = 2
    MaxRuns = 1
    MaxFaults = 3
INVARIANT
    InstancesNeverShare
CHECK_DEADLOCK FALSE
