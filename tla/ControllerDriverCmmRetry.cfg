SPECIFICATION RetriedDrive
CONSTANTS
    Procs = {p1}
    Requests <- CmmRequest
    Reasons = {"transport_failure"}
    None = None
PROPERTIES
    DrivenTransactionSettles
