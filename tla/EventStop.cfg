SPECIFICATION Spec
CONSTANTS
    Serial = Serial
    Fanned = Fanned
    Schedulers = {Serial, Fanned}
    SchedulerOf <- MCSchedulerOf
    Subscribers <- SubscribeSerial
    None = None
    Events = {1, 2}
    Targets = {1, 2, 3}
    Parallel = {Serial, Fanned}
    Webhook = {1}
    Undecodable = {}
    StopScope = {1, 2}
    StopMayFail = TRUE
    Workers = 0
    BusSize = 2
    Outcomes = {"failed"}
    MaxClaims = 2
    MaxCrashes = 1
    MaxFaults = 0
INVARIANTS
    StopIsHonest
    ExecutedOnce
PROPERTIES
    CanceledNeverStarts
CHECK_DEADLOCK FALSE
