SPECIFICATION FairSpec
CONSTANTS
    Execs = {command, run}
    Commands = {command}
    Stops = {s1, s2, s3}
    None = None
INVARIANTS
    GracefulIsReal
    CanceledBeforeStop
PROPERTIES
    StopsReturn
CHECK_DEADLOCK FALSE
