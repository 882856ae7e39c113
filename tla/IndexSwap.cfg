\* Two processes open, migrate, rebuild and restore; one fault, any number of kills.
SPECIFICATION Spec
CONSTANTS
  p1 = p1
  p2 = p2
  Nobody = Nobody
  NoDb = NoDb
  Procs <- TwoProcs
  Newest = 3
  Supported = 2
  KeptSchemas = 2
  MaxSwaps = 2
  MaxBackups = 3
  MaxRows = 1
  MaxFaults = 1
CONSTRAINT ManualOrHarmed
SYMMETRY Alike
INVARIANTS
  TypeOK
  RollbacksStand
  DamagedIsKept
PROPERTIES
  FailureRestores
