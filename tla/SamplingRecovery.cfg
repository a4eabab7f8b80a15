CONSTANTS
    Txs <- MCTxs
    Sessions = {s1}
    Capacity = 30
    Reserve = 12
    OldEvents <- MCNearlyFull
    MaxFaults = 1
SPECIFICATION Spec
INVARIANT RecoveryAdmitted
