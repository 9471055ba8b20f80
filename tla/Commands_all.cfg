CONSTANTS
  Tasks = 2
  MaxTokens = 1
  MaxLines = 2
  MaxEvents = 1
  BenchIds = {1, 2}
  Feeds = {0, 1}
  StopIds = {1}
  MaxCounts = 2
  EngineBuilds = {1, 2}
  FirstBuild = 2
  Settings = {0, 1}
  MaxWriters = 2
  MaxBusy = 1
  RowKeys <- MCRowKeys
  BatchSizes = {1, 2}
  Specs = {"none", "draft"}
  Measures <- MCMeasures
  MaxMeasures = 3
  Lanes = {0, 1}
  MaxRequests = 2
  MaxDecode = 1
  MaxUnread = 3
  MaxDrops = 1
  FitModels = {1, 2}
  FitAdapters = {"a"}
  FitLabels = {1}
  SkipPairs = {}
  ScanIds = {1, 2}
  ScanPermits = 1
  MaxLibScans = 1
  MaxSingles = 2
  MaxProbeFails = 1
  Turns = {1, 2}
  Outputs <- MCOutputs
  PipeCap = 1
  BatchCap = 2
  MaxPrinted = 2
  Chains = {1, 2}
  Plugins = {1, 2}
  LiveIds = {1}
  MaxFaultySets = 2
SPECIFICATION Spec
INVARIANTS PollInv BenchesInv  LearnInv ScanInv OutputInv 
CHECK_DEADLOCK FALSE
