SPECIFICATION Spec
CONSTANTS
    Procs = {p1, p2}
    Ids = {a, b}
    Paths = {x, y}
    StagedPaths = {s}
    Bytes = {u, v}
    None = None
    MaxArtifacts = 2
    MaxRevision = 3
SYMMETRY Symmetry
INVARIANTS
    CommittedArtifactsIntact
    SourceRecordsUsable
    CompleteSessionSealed
PROPERTIES
    PublishedStays
