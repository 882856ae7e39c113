\* Three tasks of two repositories, one linked from the start (MCTaskThreads).
SPECIFICATION Spec
CONSTANTS
  p1 = p1
  p2 = p2
  api = api
  web = web
  a = a
  b = b
  Nobody = Nobody
  Tasks <- ThreeTasks
  Locks <- AllLocks
  Procs <- TwoProcs
  Change = 2
  RepoOf <- OwnRepos
  Linked <- FirstTask
  Lanes <- TwoLanes
  MaxSlices = 2
  MaxMerges = 1
  MaxJobs = 4
  MaxTargets = 1
  MaxRevision = 2
  MaxLinks = 2
INVARIANTS
  CommandsNeverFork
  NoCircularWait
PROPERTIES
  CloseoutFollowsWork
  PinnedLanesStand
  EditsAreSerial
CONSTRAINT TracksOrLinks
SYMMETRY Alike
CHECK_DEADLOCK FALSE
