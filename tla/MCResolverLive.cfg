SPECIFICATION FairSpec
CONSTANTS
  h1 = h1  h2 = h2  h3 = h3  h4 = h4  h5 = h5  h6 = h6  w1 = w1  w2 = w2
  Hosts <- ThreeHosts
  Nameless <- OnlyH2
  Stuck <- OnlyH1
  Workers <- TwoWorkers
  Capacity = 3
  MaxInflight = 2
  MaxShown = 2
CHECK_DEADLOCK FALSE
PROPERTIES ViewResolves WorkersShutDown
