SPECIFICATION Spec
CONSTANTS
  Paths <- MCPaths
  Dirs <- MCDirs
  Keys = {url, pw}
  Values = {1, 2}
  Unset = Unset
  Savers = {a, b}
  Deployments <- MCDeployments
  MaxSaves = 2
  MaxEdits = 1
INVARIANTS
  ConfigTypeOK
  LayersRanked
  NothingWiped
  SavedInForce
