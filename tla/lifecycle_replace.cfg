\* An instance that may not replace displaces another.
SPECIFICATION Spec
CONSTANTS
  i1 = i1
  i2 = i2
  c1 = c1
  c2 = c2
  Instances = {i1, i2}
  Clients = {c1, c2}
  Nobody = Nobody
  Remain = TRUE
  Staggered = FALSE
  LeaveEarly = FALSE
  MaxCalls = 1
PROPERTIES
  ReplacesOnlyOnRequest
\* Every instance may have exited: nothing more happens.
CHECK_DEADLOCK FALSE
