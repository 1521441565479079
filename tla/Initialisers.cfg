SPECIFICATION Spec
CONSTANTS
  Programs <- MCPrograms
  Constants <- MCConstants
  Depth <- MCDepth
  AllocSize <- MCAllocSize
  ElementOffset <- MCElementOffset
  ByteValues = 4
  NoGlobal = NoGlobal
INVARIANTS TypeOK ImageCorrect StopsAtShortData StopsAtUnsupported
CHECK_DEADLOCK FALSE
