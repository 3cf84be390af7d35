SPECIFICATION FairSpec
CONSTANTS
    Schedulers = {s1}
    Kinds = {"cron", "timeout"}
    Callers = {c1, c2}
    Boot = boot
    None = none
    Requests <- AllRequests
    Period = 1
    MaxTime = 2
    MaxCalls = 1
    MaxCrashes = 1
    MaxFaults = 1
INVARIANTS
    OneRunPerFireTime
    SwitchedOffStaysOff
PROPERTIES
    DueIsCollected
CHECK_DEADLOCK FALSE
