CONSTANTS
    Profiles = {"edge", "stable"}
    PRs = {"pr"}
    NoPR = "none"
    Absent = Absent
    Empty = Empty
    Requests <- MCRequests
    Sessions = {1, 2}
    MaxBuild = 4
    Plans <- MCExpire
SPECIFICATION FairSpec
PROPERTIES UnconfirmedBuildEnds
CHECK_DEADLOCK FALSE
