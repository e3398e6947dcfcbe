SPECIFICATION LifecycleSpec
CONSTANTS
  i1 = i1
  i2 = i2
  h1 = h1
  d1 = d1
  d2 = d2
  HttpKeys = {}
  DoraKeys = {d1}
  Keys = {d1}
  Instances = {i1}
  Commands = {}
  Supports = {}
  Sessions = {}
  Asked = {"result"}
  Outcomes = {"stopped", "unknown"}
  StoreCapacity = 2
  EventCap = 2
  MaxConcurrency = 1
  Forgets = FALSE
  Capacity = 3
  MaxExchanges = 3
  MaxEvents = 2
INVARIANTS EventsAreOrdered ExchangesAreSingle
PROPERTIES CallersAreAnswered ExchangesConclude
CHECK_DEADLOCK FALSE
