\* Two request threads and the worker, with failing inserts and crashes.
CONSTANTS
    NoValue = NoValue
    api = api
    api2 = api2
    worker = worker
    Processes = {api, worker}
    ApiThreads = {th1, th2}
    WorkerThreads = {sweep}
    ProcessOf <- MCOneApi
    Verifiers = {th1, th2, sweep}
    ActionIds = {a1}
    Keys = {k1}
    InOrder = TRUE
    MaxEvents = 5
    MaxCalls = 1
SPECIFICATION Spec
SYMMETRY NameSymmetry
CHECK_DEADLOCK FALSE
INVARIANTS
    RowsFollowTheirPredecessor
    CausesAreRecordedFirst
    DecidesOnCommittedHistory
    RefusedIsNeverAccepted
