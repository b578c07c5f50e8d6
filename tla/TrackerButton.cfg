SPECIFICATION Spec
CONSTANTS
  Sketch = "Single_Split"
  StoredCounts = {1}
  MaxWaypoints = 1
  MaxTime = 8
  MaxEdges = 2
  Gaps = {1}
  Qualities = {1, 2}
  Fixes = {TRUE}
  Speeds = {0, 2}
  Noise = FALSE
  Outputs = {"GGA"}
  StartLow = FALSE
  Debounce = 1
  HoldTime = 2
  Standstill = 1
  Margin = 1
INVARIANTS SplitHasStart ReadyIsGreen
PROPERTIES ResetNeedsHold PressIsHeard
