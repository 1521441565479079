SPECIFICATION Spec
CONSTANTS
  Programs <- MCPrograms
  ByteBits = 3
  HalfBits = 4
  WordBits = 6
  Garbage <- MCGarbage
PROPERTY ImplementsIR
CHECK_DEADLOCK FALSE
