CONSTANTS
    Deployments = {d1, d2}
    Good = {g1, g2}
    Flavors = {f1, f2}
    Configs = {c1, c2}
    MaxFaults = 4
CHECK_DEADLOCK FALSE
SPECIFICATION Spec
INVARIANTS
    FailedHasCause
    OneOrigin
    CompleteIsWhole
PROPERTIES
    RunSettles
