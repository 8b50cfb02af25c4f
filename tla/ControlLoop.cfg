\* One order, Shopify and one other source, one action, two reports, one poll.
CONSTANTS
    NoValue = NoValue
    Operator = "operator"
    Order = o1
    Entities = {o1}
    Attributes = {"status"}
    Values = {"open", "cancelled"}
    Connectors = {"shopify", "manual"}
    ActionIds = {a1}
    Reports = {r1, r2}
    ReadBack = rb
    Polls = {p1}
    ObservationIds = {r1, r2, rb, p1}
SPECIFICATION Spec
SYMMETRY IdSymmetry
CHECK_DEADLOCK FALSE
INVARIANTS
    OverruledReadsAreOnRecord
    ProofCommitShowsVerdict
PROPERTY
    ApprovalsRestOnWhatWasSeen
