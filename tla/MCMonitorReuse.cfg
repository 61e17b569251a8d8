SPECIFICATION Spec
CONSTANTS
  s1 = s1  s2 = s2
  SrcRefs <- TwoRefs
  OwnerOf <- SameOwner
  Pids = {0, 1}
  Dir <- MCDir
  MaxBytes = 1
  HistLen = 1
  Spans <- MCSpans
  Batch = 2
  MaxStream = 2
  MaxQueued = 2
  MaxUpdates = 0
  Lossy = FALSE
  Reuse = TRUE
SYMMETRY Perms2
INVARIANTS SettlesOnLive
PROPERTIES TotalNeverDrops
