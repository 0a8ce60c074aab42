SPECIFICATION Spec
CONSTANTS
  x = x
  y = y
  Builds <- MCBuilds
  Entries <- MCEntries
  Wasi2 = {"wasi", "newer"}
  Provided <- MCProvided
  Keys <- MCKeys
  BuildEnv = {"PYTHONHOME"}
  Instances = {x, y}
  HostEnv <- MCHostEnv
  HostArgs <- MCHostArgs
  MaxCalls = 2
INVARIANTS SeesItsHost DrawsDiffer StateGoesHome
CHECK_DEADLOCK FALSE
