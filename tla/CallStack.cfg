SPECIFICATION Spec
CONSTANTS
  Programs <- MCPrograms
  Data = {1, 2}
  Addresses <- MCAddresses
  CodeAddress <- MCCodeAddress
  HostReturn = 4000
  HostFrame = 1040
  StackTop = 1000
  StackLimit = 780
  Unknown = Unknown
INVARIANTS TypeOK FramesLinked ObjectsApart StoresInObjects CallsReachFunctions
PROPERTIES ReturnRestoresCaller ImplementsCalls
CHECK_DEADLOCK FALSE
