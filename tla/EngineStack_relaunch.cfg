CONSTANTS
    l1 = l1
    l2 = l2
    l3 = l3
    Launches = {l1, l2}
    Stops = {1}
    Sweeps = {}
    SweepKinds = {}
    Slots = {0}
    Ports = {1}
    MaxRes = 2
    Tries = 1
    MaxAlias = 1
SPECIFICATION Spec
SYMMETRY LaunchSymmetry
INVARIANTS
    SlotOwnsItsProcess
    RunningHasEngine
    ReservationHasLauncher
    LockNamesTrackedEngine
CHECK_DEADLOCK FALSE
