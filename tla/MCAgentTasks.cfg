SPECIFICATION FairSpec
CONSTANTS
    Users = {u1}
    Workers = {w1, w2}
    Creators = {w1}
    TaskTTL = 1
    MaxTime = 2
    MaxTasks = 2
    MaxFailures = 1
INVARIANTS
    TypeOK
    HandedOnce
    OneLiveTask
PROPERTIES
    TasksAreDecided
    ImplementsTaskBoard
\* The system rests when no request arrives.
CHECK_DEADLOCK FALSE
