SPECIFICATION DeployFairSpec
CONSTANTS
  Versions = {1, 2}
  Dirs = {"data", "big"}
  Default = "data"
  Saves = {"s"}
  Brought = {"s"}
  MaxArchives = 1
  Habits = {}
  Environment = {"kill", "fail", "reboot", "crash"}
  MaxFaults = 1
  MaxRuns = 3
INVARIANT DeployTypeOK
INVARIANT NothingLost
INVARIANT ServesOwnSchema
INVARIANT PurgeFindsIt
PROPERTY SuccessRuns
PROPERTY ForcedDeployWorks
CHECK_DEADLOCK FALSE
