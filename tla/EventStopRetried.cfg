SPECIFICATION Spec
CONSTANTS
    Serial = Serial
    Fanned = Fanned
    Schedulers = {Serial, Fanned}
    SchedulerOf <- MCSchedulerOf
    Subscribers <- SubscribeSerial
    None = None
    Events = {1, 2}
    Targets = {1, 2}
    Parallel = {Fanned}
    Webhook = {1, 2}
    Undecodable = {}
    StopScope = {1}
    StopMayFail = FALSE
    Workers = 2
    BusSize = 2
    Outcomes = {"succeeded"}
    MaxClaims = 2
    MaxCrashes = 0
    MaxFaults = 0
INVARIANTS
    StopIsHonest
CHECK_DEADLOCK FALSE
