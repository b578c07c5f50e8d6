SPECIFICATION Spec
CONSTANTS
  Sketch = "Single_Split"
  StoredCounts = {1, 2}
  MaxWaypoints = 2
  MaxTime = 14
  MaxEdges = 0
  Gaps = {1}
  Qualities = {2}
  Fixes = {TRUE}
  Speeds = {2}
  Noise = FALSE
  Outputs = {"GGA"}
  StartLow = FALSE
  Debounce = 1
  HoldTime = 2
  Standstill = 1
  Margin = 1
INVARIANTS CrossingTimeBound SplitsNotNegative BestIsLeast
PROPERTIES GreenIsBest
