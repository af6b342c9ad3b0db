SPECIFICATION FairSpec
CONSTANTS
  Clients = {c1}
  Starters = {}
  Workers = {w1, w2, w3}
  Monitor = monitor
  None = None
  Commands = {"embed"}
  Attempts = 2
  MaxFaults = 2
  MaxStops = 0
INVARIANT ErrorsNeedFaults
PROPERTIES ForwardsEnd ShutdownsEnd IdleWorkerReleased
