\* Any client behaviour, an object that is removed, replaced and deleted.
SPECIFICATION Spec
CONSTANTS
  a = a
  b = b
  obj1 = obj1
  obj2 = obj2
  id1 = id1
  Clients = {a, b}
  Ids = {id1}
  Objects = {obj1, obj2}
  Props = {"value"}
  IdOf <- SharedIdOf
  Values = {}
  Invalid = Invalid
  Unknown = Unknown
  NoObject = NoObject
  NoSensor = NoSensor
  Removable = {obj1, obj2}
  Paired = FALSE
  Patient = FALSE
  QuitOnLast = TRUE
  MaxSubscriptions = 2
  MaxPending = 0
SYMMETRY ClientSymmetry
INVARIANTS
  TypeOK
  BooksAgree
  NoDanglingPointer
  ListenersKeepSensorActive
\* The daemon may stop: nothing more happens then.
CHECK_DEADLOCK FALSE
