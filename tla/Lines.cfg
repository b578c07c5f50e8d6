SPECIFICATION Spec
CONSTANTS
  Chars = {"$", "*", "1", "CR", "LF"}
  BufferLength = 6
  WaitLines = 5
  RxSize = 1
  MaxBytes = 8
  MaxSentences = 3
  Cuts = {0, 3, 5}
  Characters = {10, 42, 44, 45, 46, 49, 52, 54, 65, 68}
  MaxSentence = 8
  MaxTerms = 4
  MaxTerm = 4
  LongLimit = 64
  GPRMC_TERM <- MCTerm
  RmcTerms = {1, 2, 3}
  LineLen = 3
  LineBuffer = 4
  CopyLen = 2
  Tries = 2
  SentLines = 3
  MaxLost = 1
  Kinds = {"log", "started", "awake"}
  SerialPorts = {"p1", "p2"}
  Inverted = {"p2"}
  NoPort = "p0"
  _SS_MAX_RX_BUFF = 3
  Bytes = {1, 254}
  numPoints = 3
  TrackerPorts = {{"track", "reset"}, {"track", "waypoint"}, {"waypoint", "startfinish"}, {"test", "split", "reset"}}
  MaxLines = 4
  MaxDamaged = 2
INVARIANTS
  LinesIntact ParsedSound DecodedSound ReceivedInOrder PictureTrue
CHECK_DEADLOCK FALSE
