SPECIFICATION TimerSpec
CONSTANTS
  e1 = e1
  ghost = ghost
  i1 = i1
  i2 = i2
  query = query
  action = action
  h1 = h1
  h2 = h2
  d1 = d1
  d2 = d2
  Endpoints = {e1}
  Instances = {i1}
  Descriptors = {query, action}
  Supported = {query, action}
  Exposing = {query}
  LeaseTTL = 1
  Http = {h1, h2}
  Dora = {d1}
  Target <- MCTarget
  Capacity = 2
  MaxInvokes = 1
  Timeout = 1
  DrainLimit = 1
  MaxClock = 1
PROPERTIES HttpCallerAnswered InvocationsConclude RepliesReachTheSender
CHECK_DEADLOCK FALSE
