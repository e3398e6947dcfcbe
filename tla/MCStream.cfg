SPECIFICATION Spec
CONSTANTS
  k = k
  i = i
  Keys = {k}
  Instances = {i}
  Commands = {}
  StoreCapacity = 1
  EventCap = 2
  MaxConcurrency = 1
  Key = k
  MaxEvents = 6
  MaxConnects = 4
INVARIANTS StreamIsSound
PROPERTIES StreamsEnd
CHECK_DEADLOCK FALSE
