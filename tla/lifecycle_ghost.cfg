\* A client that vanishes early keeps the daemon alive.
SPECIFICATION FairSpec
CONSTANTS
  i1 = i1
  i2 = i2
  c1 = c1
  c2 = c2
  Instances = {i1, i2}
  Clients = {c1, c2}
  Nobody = Nobody
  Remain = FALSE
  Staggered = FALSE
  LeaveEarly = TRUE
  MaxCalls = 1
PROPERTIES
  QuitsAfterLastClient
\* Every instance may have exited: nothing more happens.
CHECK_DEADLOCK FALSE
