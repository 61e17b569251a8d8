SPECIFICATION HistorySpec
CONSTANTS
  s1 = s1
  s2 = s2
  NoCount = NoCount
  SrcRefs <- MCSrcRefs
  Pids = {0, 1}
  Dir <- MCDir
  MaxBytes = 2
  HistLen = 2
  Spans <- MCSpans
SYMMETRY Symmetry
INVARIANTS TypeOK HistFollowsRows RateIsMeasured CarryIsFresh
PROPERTIES TotalsKept MeterSpec
