\* Two orders observed in turn by one API process.
CONSTANTS
    NoValue = NoValue
    Operator = operator
    open = open
    cancelled = cancelled
    shopify = shopify
    easypost = easypost
    status = status
    o1 = o1
    o2 = o2
    o3 = o3
    e1 = e1
    e2 = e2
    Entities = {e1, e2}
    Attributes = {status}
    Values = {open, cancelled}
    Connectors = {shopify, easypost}
    ObservationIds = {o1, o2, o3}
    Offered <- MCTwoOrders
    Apis = {api}
    Workers = {}
    Commands = {}
    Handlers = {"ingest"}
    Failing = FALSE
    Restarting = FALSE
    MaxCommits = 4
SPECIFICATION Spec
CHECK_DEADLOCK FALSE
INVARIANTS
    CommitChainValidates
