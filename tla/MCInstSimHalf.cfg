SPECIFICATION Spec
CONSTANTS
  Paired = {"a"}
  Frame = {"bp"}
  Numbered = {"8"}
  Insn <- MCInsnHalf
  Sizes <- MCSizes
  MaxSamples = 2
CHECK_DEADLOCK FALSE
INVARIANT AddressesCurrent
