SPECIFICATION MergeSpec
CONSTANTS
    Sources = {1, 2}
    Streams <- UniformStreams
    Domains = {"session", "cpu"}
    Absent = Absent
    Bad = Bad
INVARIANTS
    TiesFollowKeys
    NothingMissing
CHECK_DEADLOCK FALSE
