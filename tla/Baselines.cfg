\* Two processes, one case of two repeats, any row left by earlier runs.
SPECIFICATION Spec
CONSTANTS
    p1 = p1
    p2 = p2
    k1 = k1
    Procs <- MCProcs
    Keys <- MCKeys
    NoVerdict = NoVerdict
    NoRow = NoRow
    NCases = 1
    Repeats = 2
    Raws <- MCRaws
    Stored <- MCStored
SYMMETRY Symmetry
INVARIANTS
    TypeOK
    ExitCodeIsDeserved
PROPERTIES
    BaselineMovesByJudgement
    LoweredIsReported
