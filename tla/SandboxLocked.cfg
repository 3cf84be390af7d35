SPECIFICATION Spec
CONSTANTS
    Callers = {c1, c2}
    Boot = Boot
    None = None
    Policies = {"retain", "remove"}
    Ops <- LockedOps
    MaxCrashes = 2
    MaxFaults = 1
SYMMETRY CallerSymmetry
INVARIANTS
    FenceCoversLive
    StopReleases
    CleanupSparesLive
    OneFailureNoOrphan
CHECK_DEADLOCK FALSE
