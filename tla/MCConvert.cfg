SPECIFICATION Spec
CONSTANTS
  Pip = {1, 2, 3}
  Name = {f, long}
  LongName = {long}
  File = {a, b}
  Invalid = Invalid
  Unknown = Unknown
  MaxRecords = 2
  MaxSymbols = 2
SYMMETRY Symmetry
CHECK_DEADLOCK FALSE
INVARIANTS TypeOK ProfileMatchesRecords LookupInTable
