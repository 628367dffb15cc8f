\* One client, two sensors of one object, the list in every order.
SPECIFICATION Spec
CONSTANTS
  a = a
  b = b
  obj1 = obj1
  obj2 = obj2
  id1 = id1
  Clients = {a}
  Ids = {id1}
  Objects = {obj1}
  Props = {"x", "y"}
  IdOf <- OneIdOf
  Values = {1, 2}
  Invalid = Invalid
  Unknown = Unknown
  NoObject = NoObject
  NoSensor = NoSensor
  Removable = {}
  Paired = TRUE
  Patient = TRUE
  QuitOnLast = TRUE
  MaxSubscriptions = 1
  MaxPending = 2
PROPERTIES
  ImplementsService
\* The daemon may stop: nothing more happens then.
CHECK_DEADLOCK FALSE
