SPECIFICATION Spec
CONSTANTS
    r1 = r1
    r2 = r2
    Requests = {r1, r2}
    RunConfigs = {"runA", "runB"}
    CommandConfigs = {"cmdA", "cmdB"}
    None = None
    Legacy = Legacy
    Retained = {2}
    MaxTries = 3
    MaxRequests = 3
    MaxFaults = 1
    MaxCrashes = 1
SYMMETRY Symmetry
INVARIANTS
    OneConfigurationPerSandbox
    RetiredStaysStopped
    NoStrayRuntime
CHECK_DEADLOCK FALSE
