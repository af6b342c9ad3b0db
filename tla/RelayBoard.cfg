SPECIFICATION Spec
CONSTANTS
  Agents = {a1, a2}
  DefaultLane = dflt
  LaneIds = {dflt, lane}
  Files = {f1}
  Tasks = {task}
  Contracts = {contract}
  None = None
  NoLane = NoLane
  NoBoard = NoBoard
  ZombieAge = 1
  MaxTime = 3
SYMMETRY Symmetry
INVARIANTS TypeOK LaneCoherent
PROPERTIES HoldersKeepLanes HandoffsReachAddressees BusyLanesDefendFiles
