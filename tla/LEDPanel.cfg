SPECIFICATION Spec
CONSTANTS
  W = 12
  Durations = {0, 2}
  BlinkTimes <- MCBlinkTimes
  MaxLoop = 2
  AgeCap = 9
INVARIANTS TypeOK BlinkAlternates TimedBlinkEnds FlashReturnsToBase
PROPERTIES FullHalfPeriods ImplementsView
