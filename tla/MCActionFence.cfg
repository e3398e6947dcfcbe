SPECIFICATION Spec
CONSTANTS
  i1 = i1
  i2 = i2
  h1 = h1
  d1 = d1
  d2 = d2
  HttpKeys = {}
  DoraKeys = {d1}
  Keys = {d1}
  Instances = {i1}
  Commands = {}
  Supports = {}
  Sessions = {}
  Asked = {}
  Outcomes = {"completed"}
  StoreCapacity = 2
  EventCap = 1
  MaxConcurrency = 1
  Forgets = TRUE
  Capacity = 2
  MaxExchanges = 3
  MaxEvents = 1
PROPERTIES EndedFenceStaysDown
CHECK_DEADLOCK FALSE
