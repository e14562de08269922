\* Two runners serve two jobs of one pull request, with two faults.
SPECIFICATION Spec
SYMMETRY Symmetry
CONSTANTS
    Runners = {r1, r2}
    Jobs = {j1, j2}
    NoJob = NoJob
    PageSize = 1
    MarkerLength = 2
    MaxFaults = 2
    MaxOthers = 1
INVARIANTS
    TypeOK
    StatusIsBacked
    GreenMeansPassed
    CommentHasItsCheck
PROPERTIES
    ImplementsPublication
