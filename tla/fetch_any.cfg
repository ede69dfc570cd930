SPECIFICATION FetchSpec
CONSTANTS
  latest = latest  other = other
  Keys = {latest}
  Workers = {w1}
  Sessions = {s1}
  NoKey = NoKey
  MaxQueue = 2
  Repos = {own, fork}
  OwnRepo = own
  NoRepo = NoRepo
  Published = {latest}
  NumFiles = 2
  Environment <- Everything
  MaxFaults = 2
INVARIANTS FetchTypeOK RowsFollowBody
