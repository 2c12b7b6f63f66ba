SPECIFICATION Spec
CONSTANTS
  Worker = {w1, w2}
  Main = main
  BUFFERSIZE = 2
  racez_memory_allocator = TRUE
  racez_signal_wait = FALSE
  racez_signal_sample = FALSE
  JoinsFirst = FALSE
  RacyLookup = TRUE
  MaxStarts = 1
  MaxSamples = 1
  MaxLogged = 0
CHECK_DEADLOCK FALSE
INVARIANTS EnabledMeansReady SampledIsMapped StopSilences
PROPERTIES StopReturns ContextRearmed
