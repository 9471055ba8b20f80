CONSTANTS
  EngineBuilds = {1,2}
  FirstBuild = 2
  Settings = {0, 1}
  MaxWriters = 2
  MaxBusy = 2
SPECIFICATION ProvidersSpec
CHECK_DEADLOCK FALSE
PROPERTY OlderPackDoesNotHijack
