CONSTANTS
  Apps = {1, 2}
  LockPorts = {1}
  MaxPids = 2
  MaxPairings = 1
  MaxHandOvers = 2
  ModelCalls = {1, 2}
  Stacks <- MCStacks
  NewAliases <- MCNewAliases
  ChunkCap = 1
  MaxBytes <- MCMaxBytes
  MaxEvents = 2
  GwDevices = {1, 2}
  Pairers = {1, 2}
  MaxSaves = 2
  MaxStarts = 2
  PiOps = {1, 2}
  MaxCommands = 2
  MaxFaults = 1
  TcJobs = {1, 2}
  MaxTcJobs = 2
  MaxTcFaults = 1
  LibFiles = {1, 2, 3}
  ModelFiles <- MCModelFiles
  Shelves <- MCShelves
  CatKey <- MCCatKey
  OnHub = {1}
  ScanJobs = {1}
  PendingLimit = 2
  MaxVersions = 3
  MaxLibOps = 3
  Revisions = {1, 2, 3, 4}
  HeaderLen <- MCHeaderLen
  WeightsOf <- MCWeightsOf
  WeightsLen <- MCWeightsLen
  Patchers = {1, 2}
  MaxDelta = 3
  MaxProbe = 4
  ProbeSlack = 1
  MaxGgufFiles = 2
  MaxChecks = 1
SPECIFICATION Spec
INVARIANTS LocksInv  StoreInv   
CHECK_DEADLOCK FALSE
