SPECIFICATION Spec
CONSTANTS
  XS = {0, 1, 2, 3, 4, 5, 6}
  YS = {0, 1, 2, 3, 4}
  HalfWidth = 3
  LegTime = 3
INVARIANTS GateAcrossLeg CrossingIsReal CrossingWithinLeg
