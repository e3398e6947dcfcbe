SPECIFICATION Spec
CONSTANTS
  i1 = i1
  i2 = i2
  h1 = h1
  d1 = d1
  d2 = d2
  HttpKeys = {h1}
  DoraKeys = {d1}
  Keys = {h1, d1}
  Instances = {i1, i2}
  Commands = {}
  Supports = {}
  Sessions = {}
  Asked = {}
  Outcomes = {"completed"}
  StoreCapacity = 1
  EventCap = 1
  MaxConcurrency = 1
  Forgets = FALSE
  Capacity = 2
  MaxExchanges = 2
  MaxEvents = 1
INVARIANTS AdmittedIsThere
CHECK_DEADLOCK FALSE
