SPECIFICATION FairSpec
CONSTANTS
  Datagrams <- MCDatagrams
  Paths <- MCPaths
  BufLen = 320
  MaxReads = 2
CHECK_DEADLOCK FALSE
INVARIANTS TypeOK WalkIsFaithful NamesAreClean
PROPERTIES DrainEmptiesSocket
