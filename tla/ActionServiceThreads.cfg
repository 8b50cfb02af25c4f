\* Two request threads, and two tenants that use one idempotency key and order id.
CONSTANTS
    NoValue = NoValue
    Tenants = {t1, t2}
    ActionIds = {a1, a2}
    Keys = {k1}
    Orders = {o1}
    Threads = {th1, th2}
    Contexts <- MCOpenContext
    MaxVersion = 1
    MaxCalls = 2
    MaxEvents = 5
SPECIFICATION Spec
SYMMETRY NameSymmetry
CHECK_DEADLOCK FALSE
INVARIANTS
    EffectsAreAuthorized
    StatusFollowsLog
    ReceiptsMatchLog
    OneActionPerKey
