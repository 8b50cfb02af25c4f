\* Two operators that both may run init, two tenants, two workspaces, one action.
CONSTANTS
    NoValue = NoValue
    Tenants = {t1, t2}
    Ids = {w1, w2}
    ConnectorKinds = {"shopify"}
    Operators = {o1, o2}
    Initializers = {o1, o2}
    Checkers = {o2}
    Requests = {r1}
    ActionIds = {a1}
    OrderValue = 1
    SettingsLimit = NoValue
    Limits = {}
    MaxTime = 2
SPECIFICATION Spec
CHECK_DEADLOCK FALSE
SYMMETRY NameSymmetry
INVARIANTS
    SettingsAreAsRequested
    EffectsAreGranted
