SPECIFICATION Spec
CONSTANTS
  ClusterCount = 3
  PerFat = 3
  PerBlock = 2
  Files = {"a"}
  Dirs = {}
  RootSlots = 2
  Lengths = {1, 2}
  Positions = {0, 2}
  MaxSize = 3
  MaxFaults = 0
  MaxStarts = 0
  MaxCalls = 5
INVARIANT SyncOnlyFailsByCard
CHECK_DEADLOCK FALSE
