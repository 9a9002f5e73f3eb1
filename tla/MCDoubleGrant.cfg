SPECIFICATION Spec
CONSTANTS
    Users = {u1}
    Orders = {o1}
    Workers = {w1, w2}
    NoOrder = NoOrder
    NoUser = NoUser
    Products = {"vip1", "vip2"}
    BillingMonths = {1}
    Month = 1
    OrderTTL = 1
    AdminExpiries <- UntilOne
    MaxTime = 0
    MaxSubs = 4
    MaxAdmin = 0
    MaxFailures = 0
SYMMETRY OrderAndWorkerSymmetry
VIEW SafetyView
INVARIANTS
    AtMostOneGrant
\* The system rests when no request arrives.
CHECK_DEADLOCK FALSE
