SPECIFICATION Spec
CONSTANTS
  i1 = i1
  i2 = i2
  h1 = h1
  d1 = d1
  d2 = d2
  HttpKeys = {h1}
  DoraKeys = {d1}
  Keys = {h1, d1}
  Instances = {i1, i2}
  Commands = {"cancel"}
  Supports = {"cancel"}
  Sessions = {}
  Asked = {}
  Outcomes = {"completed"}
  StoreCapacity = 2
  EventCap = 1
  MaxConcurrency = 1
  Forgets = TRUE
  Capacity = 2
  MaxExchanges = 2
  MaxEvents = 1
INVARIANTS FenceCoversRunning DefiniteMeansOver PinnedToCurrent
CHECK_DEADLOCK FALSE
