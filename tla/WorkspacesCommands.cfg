\* Commands alone, with both connectors.
CONSTANTS
    NoValue = NoValue
    Tenants = {t1, t2}
    Ids = {w1, w2}
    ConnectorKinds = {"shopify", "easypost"}
    Operators = {o1, o2}
    Initializers = {o1, o2}
    Checkers = {o2}
    Requests = {}
    ActionIds = {}
    OrderValue = 1
    SettingsLimit = NoValue
    Limits = {}
    MaxTime = 2
SPECIFICATION Spec
CHECK_DEADLOCK FALSE
SYMMETRY NameSymmetry
INVARIANTS
    SettingsAreAsRequested
    TypeOK
