SPECIFICATION Spec
CONSTANTS
  e1 = e1
  e2 = e2
  r1 = r1
  r2 = r2
  r3 = r3
  i1 = i1
  i2 = i2
  query = query
  action = action
  service = service
  Endpoints = {e1, e2}
  Routes = {r1, r2, r3}
  RouteEndpoint <- MCRouteEndpoint
  Instances = {i1, i2}
  Descriptors = {query, action, service}
  Supported = {query, action}
  LeaseTTL = 2
  MaxRevision = 4
  MaxClock = 3
SYMMETRY Symmetry
INVARIANTS TypeOK NoLapsedLeaseSurvives
PROPERTIES RemovalsReported
