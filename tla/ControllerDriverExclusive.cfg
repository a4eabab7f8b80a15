SPECIFICATION Spec
CONSTANTS
    Procs = {p1}
    Requests <- NormalRequests
    Reasons = {"operator_request"}
    None = None
INVARIANTS
    AcceptAbortExclusive
