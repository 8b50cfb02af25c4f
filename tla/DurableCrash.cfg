\* A process that stops between the provider's answer and the insert.
CONSTANTS
    NoValue = NoValue
    api = api
    api2 = api2
    worker = worker
    Processes = {api}
    ApiThreads = {th1}
    WorkerThreads = {}
    ProcessOf <- MCOneApi
    Verifiers = {}
    ActionIds = {a1}
    Keys = {k1}
    InOrder = TRUE
    MaxEvents = 4
    MaxCalls = 2
SPECIFICATION Spec
CHECK_DEADLOCK FALSE
INVARIANT EffectIsNotDuplicated
