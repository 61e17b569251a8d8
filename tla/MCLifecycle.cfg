SPECIFICATION LifeFairSpec
CONSTANTS
  p1 = p1  p2 = p2
  NoPid = NoPid
  Pids <- TwoPids
  SortKeys <- OneKey
  MaxFilter = 1
  Pages = {2}
  MaxKeys = 2
  ArgLists <- MCArgs
  Seconds <- MCSeconds
  Signals <- MCSignals
CHECK_DEADLOCK FALSE
INVARIANTS LifeTypeOK CursorIsAnchored TerminalIsRestored ZeroMeansQuit
PROPERTIES CursorFollowsProcess QuitIsMeant NothingAfterQuit SignalIsReported
