SPECIFICATION Spec
CONSTANTS
  e1 = e1
  ghost = ghost
  i1 = i1
  i2 = i2
  query = query
  action = action
  h1 = h1
  h2 = h2
  d1 = d1
  d2 = d2
  Endpoints = {e1}
  Instances = {i1, i2}
  Descriptors = {query}
  Supported = {query}
  Exposing = {query}
  LeaseTTL = 1
  Http = {h1}
  Dora = {d1}
  Target <- MCTarget
  Capacity = 3
  MaxInvokes = 2
  Timeout = 1
  DrainLimit = 1
  MaxClock = 2
INVARIANTS TypeOK SlotsBalanced UnclaimedPinnedToCurrent UnclaimedIsQueuedOnce OneReplyPerRequest FinalDrainAnswersAll
PROPERTIES ImplementsContract
CHECK_DEADLOCK FALSE
