SPECIFICATION BusFairSpec
CONSTANTS
  machines = machines
  dashboard = dashboard
  workers = workers
  Pages = {machines, workers}
  Handlers = {h1, h2}
  Fragment <- MCFragment
  QueueSize = 1
  MaxCalls = 2
  MaxDrops = 2
INVARIANT BusTypeOK
INVARIANT NextChangeCatchesUp
PROPERTY JobsAreShown
PROPERTY ShutdownEnds
