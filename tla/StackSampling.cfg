CONSTANTS
    Txs <- MCTxs
    Sessions = {s1, s2}
    MaxSamples = 2
    MaxFaults = 3
CHECK_DEADLOCK FALSE
SPECIFICATION StackSpec
INVARIANTS
    HaltIsOwned
PROPERTIES
    ExternalStopKept
