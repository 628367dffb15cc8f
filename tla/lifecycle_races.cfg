\* Two instances, two clients, any order of everything.
SPECIFICATION Spec
CONSTANTS
  i1 = i1
  i2 = i2
  c1 = c1
  c2 = c2
  Instances = {i1, i2}
  Clients = {c1, c2}
  Nobody = Nobody
  Remain = FALSE
  Staggered = FALSE
  LeaveEarly = TRUE
  MaxCalls = 2
SYMMETRY Symmetry
INVARIANTS
  DisplacedIsTold
PROPERTIES
  QuitsOnlyWhenUnused
  ReplacedHandlesAllCalls
\* Every instance may have exited: nothing more happens.
CHECK_DEADLOCK FALSE
