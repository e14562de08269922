\* Three cases, up to three at once, one GPU loss per case, a clock of two units.
SPECIFICATION Spec
CONSTANTS
    NItems = 3
    MaxParallel = 3
    Samples <- MCSamples
    NoSample = NoSample
    InitialCase <- MCInitialCase
    Reserve <- MCReserve
    AdmitSpacing = 1
    Deadlines = {1, 9}
    Repeats = 1
    MaxTime = 2
INVARIANT
    NeverBackUp
