\* A value whose attribute is under dispute.
CONSTANTS
    NoValue = NoValue
    Operator = Operator
    Entities = {e1}
    Attributes = {n1}
    Values = {v1,v2}
    Connectors = {c1, c2}
    ObservationIds = {o1,o2,o3}
    MaxCommits = 4
SPECIFICATION Spec
CHECK_DEADLOCK FALSE
PROPERTY OpenConflictPinsValue
