\* One command after the other observes an order, each through another connector.
CONSTANTS
    NoValue = NoValue
    Operator = operator
    open = open
    cancelled = cancelled
    shopify = shopify
    easypost = easypost
    status = status
    o1 = o1
    o2 = o2
    o3 = o3
    e1 = e1
    e2 = e2
    Entities = {e1}
    Attributes = {status}
    Values = {open, cancelled}
    Connectors = {shopify, easypost}
    ObservationIds = {o1, o2}
    Offered <- MCFresh
    Apis = {}
    Workers = {}
    Commands = {cli}
    Handlers = {}
    Failing = FALSE
    Restarting = FALSE
    MaxCommits = 4
SPECIFICATION Spec
CHECK_DEADLOCK FALSE
PROPERTIES
    FreshStoredValuesStay
