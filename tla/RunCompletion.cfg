SPECIFICATION FairSpec
CONSTANTS
    r1 = r1
    q1 = q1
    q2 = q2
    NoRow = NoRow
    Absent = Absent
    Runs <- OneRun
    Requests <- TwoRequests
    RunOf <- SameKey
    Reusing <- OneReuses
    Policies <- AllPolicies
    MaxAttempts = 2
    MaxCrashes = 2
CHECK_DEADLOCK FALSE
INVARIANTS
    TaskRunsOnce
    NoStrandedRun
    LoserLeavesNoSandbox
PROPERTIES
    CleanupIsHonest
    FirstWriterWins
    StagedRunFinishes
    StoppedRunFinishes
