SPECIFICATION Spec
CONSTANTS
  s1 = s1
  SrcRefs <- OneRef
  Pids = {0, 1}
  Dir <- MCDir
  MaxBytes = 12
  HistLen = 1
  Spans <- MCSpans
  Pace = 1
  Interval = 2
  Waits = {1, 2}
  MaxTime = 10
  MaxUpdates = 1
  MaxDrops = 1
CHECK_DEADLOCK FALSE
INVARIANTS TypeOK
PROPERTIES DeltaBetweenPolls PauseNeverMeasured
