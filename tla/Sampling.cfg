CONSTANTS
    Txs <- MCTxs
    Sessions = {s1, s2}
    Capacity = 30
    Reserve = 12
    OldEvents <- MCOld
    MaxFaults = 3
SPECIFICATION Spec
INVARIANTS
    ActiveIsJournaled
    DriverFindsIdleTarget
    CapturedIsProven
PROPERTIES
    ForeignUntouched
