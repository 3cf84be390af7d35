SPECIFICATION Spec
CONSTANTS
    Clients = {c1, c2}
    Modes <- ModesAll
    InputCap = 1
    SubCap = 1
    MaxFrames = 2
    MaxLeases = 3
    MaxFaults = 0
    MaxRestarts = 1
    None = None
SYMMETRY ClientSymmetry
INVARIANTS
    InputInLeaseOrder
    OneTurnAtATime
    OutputHasNoGap
PROPERTIES
    TurnsAreCounted
    ShutdownSparesTask
