SPECIFICATION SnapFairSpec
CONSTANTS
  s1 = s1  s2 = s2
  SrcRefs <- TwoRefs
  OwnerOf <- SameOwner
  Pids = {0, 1}
  Dir <- MCDir
  MaxBytes = 0
  HistLen = 1
  Spans = {1}
  Batch = 1
  MaxStream = 3
  MaxQueued = 2
  MaxUpdates = 0
  Lossy = FALSE
  Reuse = TRUE
  IdleDrains = 2
  SettleMax = 4
  ReplyLag = 1
CHECK_DEADLOCK FALSE
INVARIANTS SnapshotIsNamed
PROPERTIES SnapshotEnds
