SPECIFICATION Spec
CONSTANTS
    Word = 8
    SlotCount = 3
    TickModulus = 4
    MaxForward = 2
    Scale <- MCScale
    Steps = {1}
    InitialSequences = {6}
    MaxEvents = 12
    MaxErrors = 0
    None = None
INVARIANTS
    LossIsAnnounced
CHECK_DEADLOCK FALSE
