\* Three actions, the second of which may become unreadable, two failures, four settings.
CONSTANTS
    NoValue = NoValue
    a1 = a1
    a2 = a2
    a3 = a3
    Proposed <- ThreeActions
    Fragile = {a2}
    Configurations <- Corners
    ReadTicks = 2
    SaveTicks = 1
    MaxFaults = 2
SPECIFICATION FairSpec
CHECK_DEADLOCK FALSE
INVARIANTS
    BudgetIsKept
    VerdictsAreStored
PROPERTIES
    PollingEndsInVerdict
    ReadableActionsAreSettled
