SPECIFICATION Spec
CONSTANTS
  Worker = {w1, w2}
  Main = main
  BUFFERSIZE = 2
  racez_memory_allocator = TRUE
  racez_signal_wait = FALSE
  racez_signal_sample = TRUE
  JoinsFirst = TRUE
  RacyLookup = FALSE
  MaxStarts = 2
  MaxSamples = 1
  MaxLogged = 1
SYMMETRY Symmetry
CHECK_DEADLOCK FALSE
INVARIANTS TypeOK ClaimsExact FileComplete NoFault
