\* The documented status of an action against the one in memory.
CONSTANTS
    NoValue = NoValue
    Tenants = {t1}
    ActionIds = {a1}
    Keys = {k1}
    Orders = {o1}
    Threads = {th1}
    Contexts <- MCOpenContext
    MaxVersion = 2
    MaxCalls = 2
    MaxEvents = 4
SPECIFICATION Spec
CHECK_DEADLOCK FALSE
INVARIANT StatusIsLatestEvent
