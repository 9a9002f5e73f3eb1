SPECIFICATION Spec
CONSTANTS
    Users = {u1}
    Orders = {o1}
    Workers = {w1, w2}
    NoOrder = NoOrder
    NoUser = NoUser
    Products = {"vip1", "vip2"}
    BillingMonths = {1}
    Month = 1
    OrderTTL = 1
    AdminExpiries <- UntilZero
    MaxTime = 1
    MaxSubs = 3
    MaxAdmin = 1
    MaxFailures = 1
SYMMETRY OrderAndWorkerSymmetry
VIEW SafetyView
INVARIANTS
    TypeOK
    CopiesAgree
    GrantBacked
    GrantedHasSubscription
PROPERTIES
    GrantOnlyWhilePaid
    SubscriptionsOnlyClose
\* The system rests when no request arrives.
CHECK_DEADLOCK FALSE
