SPECIFICATION Spec
CONSTANTS
    Word = 8
    SlotCount = 2
    TickModulus = 4
    MaxForward = 2
    Scale <- MCScale
    Steps = {1}
    InitialSequences = {6}
    MaxEvents = 12
    MaxErrors = 2
    None = None
INVARIANTS
    LossIsAnnounced
    DropCountExact
    TimelineIsTrue
PROPERTY RingIsQueue
CHECK_DEADLOCK FALSE
