SPECIFICATION Spec
CONSTANTS
    Users = {u1, u2}
    Addresses = {u1}
    Devices = {d1, d2, d3}
    Workers = {w1, w2}
    u1 = u1
    u2 = u2
    d1 = d1
    d2 = d2
    d3 = d3
    w1 = w1
    w2 = w2
    NoDevice = NoDevice
    NoUser = NoUser
    MaxDevices = 1
    MaxRegs = 3
    MaxChallenges = 2
    MaxRows = 3
    MaxGrants = 1
    MaxVersion = 3
    MaxRoles = 1
    MaxOverlaps = 3
    MaxFailures = 1
SYMMETRY Symmetric
CONSTRAINT Scope
INVARIANTS
    TypeOK
    RegisteredOnce
    ChallengeLogsInOnce
    TrustStaysRevoked
    ActiveHasDevice
PROPERTIES
    RevokedStaysRevoked
    DevicesWithinPlan
    ImplementsAccessBook
\* With every bound used up nothing is left to do.
CHECK_DEADLOCK FALSE
