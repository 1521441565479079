SPECIFICATION Spec
CONSTANTS
  Modules <- MCModules
  AddressSpace = 256
  CodeBase = 150
  CodeEnd = 198
  DataBase = 20
  DataEnd = 45
  RuntimeTlsGet <- MCRuntimeTlsGet
  WeakSymbols <- MCWeakSymbols
INVARIANTS TypeOK SitesDisjoint JumpsLand ReferencesResolved
PROPERTY ImplementsLinking
