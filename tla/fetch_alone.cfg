SPECIFICATION FetchFairSpec
CONSTANTS
  latest = latest  other = other
  Keys = {latest, other}
  Workers = {w1}
  Sessions = {}
  NoKey = NoKey
  MaxQueue = 2
  Repos = {own, fork}
  OwnRepo = own
  NoRepo = NoRepo
  Published = {latest}
  NumFiles = 2
  Environment <- Harmless
  MaxFaults = 1
INVARIANTS BootDirIsWhole
PROPERTIES VerdictIsTrue LifecycleKept
