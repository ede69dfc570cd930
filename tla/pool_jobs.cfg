SPECIFICATION FairSpec
CONSTANTS
  Keys = {k1, k2, k3}
  Workers = {w1, w2}
  NoKey = NoKey
  MaxQueue = 4
INVARIANTS TypeOK QueuedIsInQueue RunningHasOneWorker
PROPERTIES LifecycleKept
