CONSTANTS
  BrainSlots = {0}
  BrainPorts = {8001}
  Launches = {1, 2, 3}
  Stoppers = {1, 2, 3}
  MaxOverlap = 1
SPECIFICATION BrainsSpec

PROPERTY NoForeignBrain
CHECK_DEADLOCK FALSE
