\* A sensor that comes back while a client is subscribed to it.
SPECIFICATION Spec
CONSTANTS
  a = a
  b = b
  obj1 = obj1
  obj2 = obj2
  id1 = id1
  Clients = {a}
  Ids = {id1}
  Objects = {obj1}
  Props = {"value"}
  IdOf <- OneIdOf
  Values = {1, 2}
  Invalid = Invalid
  Unknown = Unknown
  NoObject = NoObject
  NoSensor = NoSensor
  Removable = {obj1}
  Paired = TRUE
  Patient = TRUE
  QuitOnLast = FALSE
  MaxSubscriptions = 2
  MaxPending = 2
PROPERTIES
  UnsubscribedGetsNothing
\* The daemon may stop: nothing more happens then.
CHECK_DEADLOCK FALSE
