SPECIFICATION Spec
CONSTANTS
    Users = {u1}
    Orders = {o1, o2}
    Workers = {w1}
    NoOrder = NoOrder
    NoUser = NoUser
    Products = {"vip1", "vip2"}
    BillingMonths = {1}
    Month = 1
    OrderTTL = 1
    AdminExpiries <- UntilOne
    MaxTime = 0
    MaxSubs = 3
    MaxAdmin = 0
    MaxFailures = 0
SYMMETRY OrderSymmetry
VIEW SafetyView
PROPERTIES
    NoDowngrade
\* The system rests when no request arrives.
CHECK_DEADLOCK FALSE
