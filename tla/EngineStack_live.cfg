CONSTANTS
    l1 = l1
    l2 = l2
    l3 = l3
    Launches = {l1}
    Stops = {}
    Sweeps = {1}
    SweepKinds = {"all", "profile", "exit"}
    Slots = {0}
    Ports = {1}
    MaxRes = 2
    Tries = 2
    MaxAlias = 1
SPECIFICATION FairSpec
INVARIANTS
    StackInv
    EscapesOnlyByDrop
    KilledEngineHasNoSlot
    ChildlessSlotIsAttended
PROPERTIES
    RefinesLifecycle
    DeadEngineLeavesSlot
    LaunchReturns
CHECK_DEADLOCK FALSE
