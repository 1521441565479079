SPECIFICATION Spec
CONSTANTS
  Addresses <- MCAddresses
  SysbrkSize = 2
  Values = {v1, v2}
  WriteCount = 1
  MaxInterfaces = 2
  QueryAddress = 1000
  Nothing = Nothing
INVARIANTS TypeOK NothingOverwritten BreakInArea
PROPERTIES HeapStays QueryFound ImplementsIRT
CHECK_DEADLOCK FALSE
