SPECIFICATION Spec
CONSTANTS
  Thread = {t1, t2, t3}
  Lock = {m1}
  Address = {0, 1, 2}
  Pip = {1}
  Size = {0, 1, 2}
  RecordNo = {1, 2, 3, 4}
  enable_memory_reuse = TRUE
SYMMETRY Symmetry
CHECK_DEADLOCK FALSE
INVARIANTS TypeOK AssertsHold OneRecordPerThread StatusMeaning CandidateLockset WarningShowsConflict
 
