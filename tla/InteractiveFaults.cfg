SPECIFICATION FairSpec
CONSTANTS
    Clients = {c1}
    Modes <- ModesAll
    InputCap = 1
    SubCap = 1
    MaxFrames = 1
    MaxLeases = 2
    MaxFaults = 1
    MaxRestarts = 1
    None = None
PROPERTIES
    StopEnds
