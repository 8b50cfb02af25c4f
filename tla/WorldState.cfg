\* Two entities with two attributes each, observed by two connectors, one of
\* which calls itself operator.
CONSTANTS
    NoValue = NoValue
    Operator = Operator
    Entities = {e1,e2}
    Attributes = {n1,n2}
    Values = {v1,v2}
    Connectors = {c1, Operator}
    ObservationIds = {o1,o2,o3}
    MaxCommits = 4
SPECIFICATION Spec
SYMMETRY NameSymmetry
CHECK_DEADLOCK FALSE
INVARIANTS
    HistoryIsOneChain
    StatesReplayHistory
    CausesCommitOnce
    OpenConflictsAreIndexed
PROPERTIES
    FreshValuesAreNotOverwritten
    ResolutionIsFinal
