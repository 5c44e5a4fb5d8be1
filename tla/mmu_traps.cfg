CONSTANTS
  B = 2
  NSeg = 2
  DataBytes <- MCBytes
  Modes <- MCModes
  Accesses <- MCAccesses
SPECIFICATION TrapSpec
CONSTRAINT CommandPort
INVARIANTS CacheCoherent ProtectionEnforced
PROPERTIES ContextFrozen FaultsReported
