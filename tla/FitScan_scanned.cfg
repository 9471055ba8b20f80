CONSTANTS
  FitModels = {1, 2}
  FitAdapters = {"a"}
  FitLabels = {1, 2}
  SkipPairs = {}
  ScanIds = {1}
  ScanPermits = 1
  MaxLibScans = 2
  MaxSingles = 1
  MaxProbeFails = 1
SPECIFICATION ScanSpec
INVARIANTS ScannedPointsAreFound
CHECK_DEADLOCK FALSE
