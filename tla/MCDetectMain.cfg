SPECIFICATION MainSpec
CONSTANTS
  Thread = {t1, t2}
  Lock = {}
  Address = {0, 1}
  Pip = {1, 2, 3}
  Size = {1}
  RecordNo = {1, 2, 3}
  enable_memory_reuse = TRUE
  Logs <- MCLogs
CHECK_DEADLOCK FALSE
INVARIANTS AllNewDetected NewBeforeRaw
PROPERTIES FeedsDetector MainTerminates
