\* Two processes that prune and vacuum, fail and die; one backup is tampered with.
SPECIFICATION Spec
CONSTANTS
  o1 = o1
  o2 = o2
  b1 = b1
  b2 = b2
  b3 = b3
  NoBackup = NoBackup
  Nobody = Nobody
  Operators <- TwoOperators
  Backups <- ThreeBackups
  MaxEpoch = 2
  MaxTouched = 1
SYMMETRY Alike
INVARIANTS
  NewestBackupStands
  SnapshotsAreTracked
PROPERTIES
  DeletionIsBackedUp
