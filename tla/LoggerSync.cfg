SPECIFICATION Spec
CONSTANTS
  MaxLogs = 3
  MaxStarts = 5
  MaxLines = 3
INVARIANTS SyncAfterWrite
