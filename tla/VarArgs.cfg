SPECIFICATION Spec
CONSTANTS
  Programs <- MCPrograms
  Data = {1, 2}
  Unknown = Unknown
  MaxDepth = 4
INVARIANTS TypeOK ListsAtArguments
PROPERTY ImplementsVarArgs
CHECK_DEADLOCK FALSE
