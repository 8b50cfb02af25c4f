\* Every call of the policy with values and limits up to 2, and every preflight.
CONSTANTS
    NoValue = NoValue
    MaxValue = 2
SPECIFICATION Spec
CHECK_DEADLOCK FALSE
INVARIANTS
    PolicyMatchesReference
    ReadyOrdersCanBeCancelled
PROPERTY TighteningNeverGrants
