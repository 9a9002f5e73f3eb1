SPECIFICATION Spec
CONSTANTS
    Workers = {w1, w2}
    Names = {n1}
    Shared = {n1}
    w1 = w1
    w2 = w2
    n1 = n1
    Limits = {0, 1}
    Units = {1}
    MaxBlobs = 3
    MaxUsed = 2
    MaxFailures = 1
SYMMETRY Symmetric
INVARIANTS
    TypeOK
    NoDanglingRow
    QuotaKept
    HistoryKept
    OrphansAreFailures
\* With every blob used up and every file deleted nothing is left to do.
CHECK_DEADLOCK FALSE
