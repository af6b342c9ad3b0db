SPECIFICATION FairSpec
CONSTANTS
  Agents = {a1, a2}
  DefaultLane = dflt
  LaneIds = {dflt}
  Files = {f1}
  Tasks = {task}
  Contracts = {contract}
  None = None
  NoLane = NoLane
  NoBoard = NoBoard
  ZombieAge = 0
  MaxTime = 1
  Procs = {p1, p2}
  Commands <- MCCommands
  Tries = 2
  MaxFaults = 1
INVARIANTS TypeOK MutualExclusion SuccessIsOnDisk
PROPERTIES AtomicBoard BoardLostOnlyByFault OrphanLockFreezesBoard CommandEnds
