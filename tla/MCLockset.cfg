SPECIFICATION Spec
CONSTANTS
  Thread = {t1, t2}
  Mutex = {m1, m2, m3}
  SignalMutex = s
  tid_fd_map_mutex = fdm
  NoMutex = nomutex
  MaxLocks = 2
  racez_stacktrace = FALSE
  MaxUnattached = 1
SYMMETRY Symmetry
CHECK_DEADLOCK FALSE
INVARIANTS TypeOK SampleExact SharedLockExcludes OverflowMeansFull ArrayInBounds
