SPECIFICATION Spec
CONSTANTS
    Workers = {w1}
    Names = {n1}
    Shared = {n1}
    w1 = w1
    n1 = n1
    Limits = {3}
    Units = {1, 2}
    MaxBlobs = 2
    MaxUsed = 3
    MaxFailures = 0
INVARIANTS
    VersionsRestorable
\* With every blob used up and every file deleted nothing is left to do.
CHECK_DEADLOCK FALSE
