SPECIFICATION Spec
CONSTANTS
  Programs <- MCPrograms
  Alignment <- MCAlignment
  WordBits = 6
  Samples = {1, 70}
INVARIANTS TypeOK MeaningKept ModuleValid FullyExpanded
CHECK_DEADLOCK FALSE
