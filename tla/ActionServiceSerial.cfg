\* One request at a time: the promises that need a single executor thread.
CONSTANTS
    NoValue = NoValue
    Tenants = {t1}
    ActionIds = {a1}
    Keys = {k1}
    Orders = {o1}
    Threads = {th1}
    Contexts <- MCContexts
    MaxVersion = 3
    MaxCalls = 3
    MaxEvents = 7
SPECIFICATION Spec
CHECK_DEADLOCK FALSE
INVARIANTS
    AcceptedOnce
    ProofBundleConsistent
PROPERTIES
    ImplementsContract
