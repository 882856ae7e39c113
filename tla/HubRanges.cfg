\* Every sequence of prune batches over a few positions.
SPECIFICATION Spec
CONSTANTS
  MaxPosition = 8
INVARIANTS
  ReadersAccount
PROPERTIES
  RangesKeepTheFeed
CHECK_DEADLOCK FALSE
