\* Instances that start one after the other, clients that are known when they leave.
SPECIFICATION FairSpec
CONSTANTS
  i1 = i1
  i2 = i2
  c1 = c1
  c2 = c2
  Instances = {i1, i2}
  Clients = {c1, c2}
  Nobody = Nobody
  Remain = FALSE
  Staggered = TRUE
  LeaveEarly = FALSE
  MaxCalls = 1
PROPERTIES
  ReplacesOnlyOnRequest
  DisplacedQuits
  QuitsAfterLastClient
\* Every instance may have exited: nothing more happens.
CHECK_DEADLOCK FALSE
