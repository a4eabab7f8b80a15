SPECIFICATION Spec
CONSTANTS
    NumSessions = 2
    V2Sessions <- MCV2Sessions
    Start = 2
    MaxTransactions <- MCMaxTransactions
    MaxPlans = 2
    MaxQuarantines = 3
    MaxReservations = 2
    MaxCrashes = 1
    None = None
INVARIANTS
    OneLiveCapture
    ProgressNeverCorrupt
PROPERTIES
    NoRequestOnFailedEndpoint
    ClosedStaysClosed
CHECK_DEADLOCK FALSE
