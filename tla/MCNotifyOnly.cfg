SPECIFICATION NotifySpec
CONSTANTS
    Users = {u1}
    Orders = {o1}
    Workers = {w1}
    NoOrder = NoOrder
    NoUser = NoUser
    Products = {"vip1", "vip2"}
    BillingMonths = {1}
    Month = 1
    OrderTTL = 1
    AdminExpiries <- UntilOne
    MaxTime = 1
    MaxSubs = 3
    MaxAdmin = 0
    MaxFailures = 1
PROPERTIES
    PaidIsGranted
\* The system rests when no request arrives.
CHECK_DEADLOCK FALSE
