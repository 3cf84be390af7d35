SPECIFICATION FairSpec
CONSTANTS
    Callers = {c1}
    Boot = Boot
    None = None
    Policies = {"retain", "remove"}
    Ops <- AllOps
    MaxCrashes = 1
    MaxFaults = 1
PROPERTIES
    DeletionFinishes
    ReleaseFinishes
CHECK_DEADLOCK FALSE
