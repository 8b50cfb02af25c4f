\* An API process and a worker, every handler, failing transactions and restarts.
CONSTANTS
    NoValue = NoValue
    Operator = operator
    open = open
    cancelled = cancelled
    shopify = shopify
    easypost = easypost
    status = status
    o1 = o1
    o2 = o2
    o3 = o3
    e1 = e1
    e2 = e2
    Entities = {e1}
    Attributes = {status}
    Values = {open, cancelled}
    Connectors = {shopify, easypost}
    ObservationIds = {o1, o2}
    Offered <- MCRivals
    Apis = {api}
    Workers = {worker}
    Commands = {cli}
    Handlers = {"ingest", "resolve", "look", "verify"}
    Failing = TRUE
    Restarting = TRUE
    MaxCommits = 3
SPECIFICATION Spec
CHECK_DEADLOCK FALSE
INVARIANTS
    ProjectionIsBackedByLog
