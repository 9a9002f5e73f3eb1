SPECIFICATION Spec
CONSTANTS
    Users = {u1}
    Orders = {o1, o2}
    Workers = {w1, w2}
    NoOrder = NoOrder
    NoUser = NoUser
    Products = {"vip1", "vip2"}
    BillingMonths = {1}
    Month = 1
    OrderTTL = 1
    AdminExpiries <- UntilOne
    MaxTime = 2
    MaxSubs = 3
    MaxAdmin = 1
    MaxFailures = 1
SYMMETRY WorkerSymmetry
CONSTRAINT Apart
VIEW SafetyView
INVARIANTS
    AtMostOneGrant
    OpenCheckoutReused
    OneActiveSubscription
PROPERTIES
    RenewalAddsTime
    ImplementsLedger
\* The system rests when no request arrives.
CHECK_DEADLOCK FALSE
