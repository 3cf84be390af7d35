SPECIFICATION Spec
CONSTANTS
    Callers = {c1, c2}
    Kinds <- AllKinds
    Specs <- TwoSpecs
    Schedulers <- TwoSchedulers
    InSpec <- Contents
    EnabledIn <- EnabledContents
    Sandboxes = {1}
    Refreshers = {r1}
    None = None
    Altered = Altered
    MaxCalls = 3
    MaxFaults = 1
    MaxCrashes = 1
SYMMETRY CallerSymmetry
INVARIANTS
    GateExclusion
    NotAppliedIsTrue
    
    
    FailsClosed
PROPERTIES
    PatchReplacesExpected
