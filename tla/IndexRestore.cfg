\* A restore of an automatic backup.
SPECIFICATION Spec
CONSTANTS
  p1 = p1
  p2 = p2
  Nobody = Nobody
  NoDb = NoDb
  Procs <- TwoProcs
  Newest = 2
  Supported = 2
  KeptSchemas = 2
  MaxSwaps = 2
  MaxBackups = 4
  MaxRows = 1
  MaxFaults = 1
SYMMETRY Alike
PROPERTIES
  SelectedStands
