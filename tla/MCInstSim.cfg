SPECIFICATION Spec
CONSTANTS
  Paired = {"a"}
  Frame = {"bp"}
  Numbered = {"8"}
  Insn <- MCInsn
  Sizes <- MCSizes
  MaxSamples = 2
CHECK_DEADLOCK FALSE
INVARIANTS TypeOK AttributedInPlace 
