SPECIFICATION FairSpec
CONSTANTS
  s1 = s1  s2 = s2
  SrcRefs <- TwoRefs
  OwnerOf <- TwoOwners
  Pids = {0, 1, 2}
  Dir <- MCDir
  MaxBytes = 0
  HistLen = 1
  Spans <- NoSpans
  Batch = 1
  MaxStream = 2
  MaxQueued = 9
  MaxUpdates = 0
  Lossy = TRUE
  Reuse = FALSE
PROPERTIES RecoveredNextPoll
