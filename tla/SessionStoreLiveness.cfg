SPECIFICATION FairSpec
CONSTANTS
    Procs = {p1}
    Ids = {a, b}
    Paths = {x, y}
    StagedPaths = {s}
    Bytes = {u}
    None = None
    MaxArtifacts = 2
    MaxRevision = 1
PROPERTIES
    PublishedIngestFinishes
