SPECIFICATION Spec
CONSTANTS
  Sketch = "2LEDs_Split"
  StoredCounts = {0, 1}
  MaxWaypoints = 2
  MaxTime = 7
  MaxEdges = 2
  Gaps = {1}
  Qualities = {1}
  Fixes = {TRUE}
  Speeds = {2}
  Noise = TRUE
  Outputs = {"GGA", "default"}
  StartLow = TRUE
  Debounce = 0
  HoldTime = 2
  Standstill = 1
  Margin = 1
INVARIANTS RaceOnStoredCourse
