SPECIFICATION Spec
CONSTANTS
  h1 = h1  h2 = h2  h3 = h3  h4 = h4  h5 = h5  h6 = h6  w1 = w1  w2 = w2
  Hosts <- SixHosts
  Nameless <- Nobody
  Stuck <- Nobody
  Workers <- TwoWorkers
  Capacity = 4
  MaxInflight = 2
  MaxShown = 1
CHECK_DEADLOCK FALSE
SYMMETRY Perms
INVARIANTS TypeOK InflightIsHeld
PROPERTIES ScreenStaysCached
