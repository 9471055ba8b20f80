CONSTANTS
  BrainSlots = {0}
  BrainPorts = {8001}
  Launches = {1, 2, 3}
  Stoppers = {1, 2}
  MaxOverlap = 1
  Profiles = {"edge", "stable"}
  PRs = {"pr"}
  NoPR = "none"
  Absent = Absent
  Empty = Empty
  Requests <- MCRequests
  Sessions = {1, 2}
  MaxBuild = 4
  Plans <- MCPlans
SPECIFICATION RunSpec
INVARIANTS BrainsInv FoundryInv CancelTakesTheQueue  ABuildIsKept
PROPERTIES BrainsEnd CancelledBuildEnds
CHECK_DEADLOCK FALSE
