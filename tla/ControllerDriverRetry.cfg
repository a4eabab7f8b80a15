SPECIFICATION Running
CONSTANTS
    Procs = {p1}
    Requests <- AnyRequest
    Reasons = {"transport_failure"}
    None = None
INVARIANTS
    TypeOK
    StopAfterWorkload
PROPERTIES
    DriveSettlesOwnAborts
    PlannedAbortSettles
