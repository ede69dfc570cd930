SPECIFICATION Spec
CONSTANTS
  i1 = i1  i2 = i2  d1 = d1  d2 = d2
  None = None
  Images = {i1, i2}
  Serials = {d1, d2}
  Disks = {d1}
  Handlers = {h1, h2}
  Policies <- OnceAlwaysExit
  Environment = {"power", "retry", "lose", "flash", "plan", "artifact", "restart"}
  MaxFaults = 3
  MaxEdits = 2
  MaxPosts = 1
INVARIANT NoHalfFlashedBoot
PROPERTY FlashedOnce
