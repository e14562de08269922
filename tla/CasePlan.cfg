\* Models of up to three lines, one mishap on the runner.
SPECIFICATION Spec
CONSTANTS
    AxisNames <- MCNames
    Models <- MCModels
    Edits <- MCEdits
    Requests <- MCRequests
    Usable = {"a", "b", "iffy"}
    IfNames = {"iffy"}
    MaxMishaps = 1
INVARIANTS
    TypeOK
    BlameIsRight
    CoverageIsHonest
    CutsOnlyWhatDoesNotFit
