\* One request at a time, with new proposals under one key, and a worker that alone verifies, with failing inserts and crashes.
CONSTANTS
    NoValue = NoValue
    api = api
    api2 = api2
    worker = worker
    Processes = {api, worker}
    ApiThreads = {th1}
    WorkerThreads = {sweep}
    ProcessOf <- MCOneApi
    Verifiers = {sweep}
    ActionIds = {a1, a2}
    Keys = {k1}
    InOrder = TRUE
    MaxEvents = 7
    MaxCalls = 2
SPECIFICATION Spec
CHECK_DEADLOCK FALSE
SYMMETRY NameSymmetry
INVARIANTS
    AcceptanceIsHonoured
    OneRecordedActionPerKey
    OneVerdict
    SameEventsSameStatus
