SPECIFICATION Spec
CONSTANTS
    Procs = {p1, p2}
    Requests <- AnyRequest
    Reasons = {"operator_request"}
    None = None
SYMMETRY Symmetry
INVARIANTS
    ConfirmedAbortIsQuiet
    FailedIsQuarantined
PROPERTIES
    AbortsOnlyProven
    EffectsAreOneShot
