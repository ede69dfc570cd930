SPECIFICATION WizardFairSpec
CONSTANTS
  d1 = d1
  d2 = d2
  nodisk = nodisk
  Paths = {"sda", "sdb"}
  Disks = {d1, d2}
  NoDisk = nodisk
  Capacity <- MCCapacity
  Images <- MCImages
  Local <- MCLocal
  Assigned <- MCAssigned
  Setups <- MCSetups
  Chunks = 2
  Cap = 1
  Environment = {"net", "short", "corrupt", "kill", "disk", "missing", "mount", "swap"}
  MaxFaults = 1
  MaxRuns = 1
INVARIANT WizardTypeOK
INVARIANT ShownIsWritten
PROPERTY OnlyPickedDiskWritten
PROPERTY ContractKept
PROPERTY InterruptEnds
