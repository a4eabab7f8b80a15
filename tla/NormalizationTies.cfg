SPECIFICATION MergeSpec
CONSTANTS
    Sources = {1, 2}
    Streams <- AllStreams
    Domains = {"session"}
    Absent = Absent
    Bad = Bad
INVARIANTS
    TiesFollowKeys
CHECK_DEADLOCK FALSE
