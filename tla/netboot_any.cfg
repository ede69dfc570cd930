SPECIFICATION Spec
CONSTANTS
  i1 = i1  i2 = i2  d1 = d1  d2 = d2
  None = None
  Images = {i1, i2}
  Serials = {d1, d2}
  Disks = {d1}
  Handlers = {h1, h2}
  Policies <- AllModes
  Environment <- Anything
  MaxFaults = 2
  MaxEdits = 2
  MaxPosts = 1
INVARIANTS TypeOK ArmedOnlyInCycleModes ExitNeedsEvidence AutoFlashIsSaved
SYMMETRY Threads
