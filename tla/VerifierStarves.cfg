\* An order that cannot be read any more: neither its action nor the one behind it is settled.
CONSTANTS
    NoValue = NoValue
    a1 = a1
    a2 = a2
    a3 = a3
    Proposed <- TwoActions
    Fragile = {a1}
    Configurations <- Corners
    ReadTicks = 2
    SaveTicks = 1
    MaxFaults = 2
SPECIFICATION FairSpec
CHECK_DEADLOCK FALSE
PROPERTY
    AcceptedActionsAreSettled
