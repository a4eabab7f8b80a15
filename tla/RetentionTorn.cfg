SPECIFICATION FairSpec
CHECK_DEADLOCK FALSE
CONSTANTS
    Sessions = {1, 2}
    Directories = {d1, d2}
    Exposed = {d1, d2}
    Plans = {p1}
    Commands = {"apply", "restore"}
    Calm = {TRUE, FALSE}
    MaxVersion = 2
    None = None
PROPERTY RestoreAlwaysPossible
