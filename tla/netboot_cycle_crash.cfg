SPECIFICATION Spec
CONSTANTS
  i1 = i1  i2 = i2  d1 = d1  d2 = d2
  None = None
  Images = {i1, i2}
  Serials = {d1, d2}
  Disks = {d1}
  Handlers = {h1}
  Policies <- Always
  Environment = {"power"}
  MaxFaults = 2
  MaxEdits = 1
  MaxPosts = 1
INVARIANT NoHalfFlashedCycle
