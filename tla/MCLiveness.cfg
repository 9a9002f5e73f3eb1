SPECIFICATION FairSpec
CONSTANTS
    Users = {u1}
    Orders = {o1}
    Workers = {w1, w2}
    NoOrder = NoOrder
    NoUser = NoUser
    Products = {"vip1"}
    BillingMonths = {1}
    Month = 1
    OrderTTL = 1
    AdminExpiries <- UntilOne
    MaxTime = 0
    MaxSubs = 2
    MaxAdmin = 0
    MaxFailures = 1
PROPERTIES
    PaidIsGranted
\* The system rests when no request arrives.
CHECK_DEADLOCK FALSE
