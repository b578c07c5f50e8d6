SPECIFICATION Spec
CONSTANTS
  Blocks = {1, 2}
  BlockSize = 2
  Values = {1, 2}
  Base = 2
  Bits = {1, 2}
  Sectors = {2, 4}
  Bytes = {{1}, {2}}
  FlashAddresses = {1, 2, 6}
  FlashCalls = 5
  Gates = {"A", "B"}
  Courses <- MCCourses
  MaxGates = 3
  IntSize = 4
  DoubleSize = 1
  ByteMod = 3
  MaxLogs = 3
  MaxStarts = 4
  MaxLines = 2
  Buffers = 2
  Sd = 1
  MaxSends = 3
  MaxPackets = 4
  BUFFER_LENGTH = 2
  Data = {1, 2}
  MaxTransfers = 2
  ServoObjects = {"o1", "o2", "o3"}
  MAX_SERVOS = 2
  Pins = {3, 4}
  Angles = {91, 2399}
  Limits <- MCLimits
  ServoCalls = 3
  Motors = {5, 8}
  Moves <- MCMoves
  Wrap = 7
  Delay = 3
  Lines = {1, 2}
  Cursors <- MCCursors
  Glyphs = {0, 1}
  LcdCalls = 3
  States = {"s1", "s2", "s3"}
  NoState = "none"
  MaxTime = 2
  SSIZE = 5
  RingSpan = 10
  RingStarts = {3}
  Senders = {1}
  Chunks <- MCChunks
  EthPackets = 4
  MAX_SOCK_NUM = 2
  Clients = {"c1", "c2"}
  Udp = "u"
  LastServed = "sv"
  Servers = {"s1", "s2"}
  Pool <- MCPool
  Lease <- MCLease
  T1Option <- MCT1
  NoIp = "ip0"
  OtherIp = "ip9"
  Gaps = {1, 2}
  DhcpCalls = 3
  MaxXid = 3
  MaxAir = 2
  TIMEOUT_CHAR = 2
  Attempts = 2
  WifiSockets = 2
  HostAddresses = {10, 11}
INVARIANTS
  CardProtocol FlashHolds CourseKept  DisplayInStep EthernetSound ShieldAnswers
PROPERTIES
  LogsKept RadioCalls MotionAsCommanded TransitionsPaired
CHECK_DEADLOCK FALSE
