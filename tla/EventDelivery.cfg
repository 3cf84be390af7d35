SPECIFICATION LiveSpec
CONSTANTS
    Serial = Serial
    Fanned = Fanned
    Schedulers = {Serial, Fanned}
    SchedulerOf <- MCSchedulerOf
    Subscribers <- SubscribeOne
    None = None
    Events = {1, 3}
    Targets = {1, 2}
    Parallel = {Fanned}
    Webhook = {1}
    Undecodable = {3}
    StopScope = {}
    StopMayFail = FALSE
    Workers = 2
    BusSize = 1
    Outcomes = {"succeeded"}
    MaxClaims = 3
    MaxCrashes = 1
    MaxFaults = 1
INVARIANTS
    SlotsBalanced
    FanOutWhole
PROPERTIES
    EveryEventSettles
CHECK_DEADLOCK FALSE
