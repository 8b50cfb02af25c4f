\* An order that the preflight lets through and the normaliser refuses.
CONSTANTS
    NoValue = NoValue
    MaxValue = 2
SPECIFICATION Spec
CHECK_DEADLOCK FALSE
INVARIANT ReadyOrdersAreVisible
