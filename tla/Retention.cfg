SPECIFICATION Spec
CHECK_DEADLOCK FALSE
CONSTANTS
    Sessions = {1}
    Directories = {d1, d2, d3}
    Exposed = {d1, d2, d3}
    Plans = {p1, p2}
    Commands = {"apply", "restore"}
    Calm = {FALSE}
    MaxVersion = 2
    None = None
SYMMETRY Symmetry
INVARIANTS
    TypeOK
    QuarantineMatchesPlan
    PendingStaysActive
