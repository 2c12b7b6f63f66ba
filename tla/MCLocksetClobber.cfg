SPECIFICATION Spec
CONSTANTS
  Thread = {t1}
  Mutex = {m1, m2, m3}
  SignalMutex = s
  tid_fd_map_mutex = fdm
  NoMutex = nomutex
  MaxLocks = 3
  racez_stacktrace = TRUE
  MaxUnattached = 1
SYMMETRY Symmetry
CHECK_DEADLOCK FALSE
INVARIANT SampleExact
