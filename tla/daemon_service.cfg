\* Well-behaved clients, no removal: the daemon keeps its promise.
SPECIFICATION FairSpec
CONSTANTS
  a = a
  b = b
  obj1 = obj1
  obj2 = obj2
  id1 = id1
  Clients = {a, b}
  Ids = {id1}
  Objects = {obj1}
  Props = {"value"}
  IdOf <- OneIdOf
  Values = {1, 2}
  Invalid = Invalid
  Unknown = Unknown
  NoObject = NoObject
  NoSensor = NoSensor
  Removable = {}
  Paired = TRUE
  Patient = TRUE
  QuitOnLast = TRUE
  MaxSubscriptions = 1
  MaxPending = 2
INVARIANTS
  SubscribersAreClients
  Freshness
PROPERTIES
  UnsubscribedGetsNothing
  ImplementsService
  EventuallyConsistent
\* The daemon may stop: nothing more happens then.
CHECK_DEADLOCK FALSE
