SPECIFICATION FairSpec
CONSTANTS
  k1 = k1
  k2 = k2
  t1 = t1
  t2 = t2
  e1 = e1
  e2 = e2
  Keys = {k1, k2}
  Requests = {t1, t2}
  Emissions = {e1, e2}
  Told = {"running", "completed", "failed"}
  MaxConcurrency = 1
  MaxRetained = 1
  MaxEarly = 1
  MaxRecords = 2
INVARIANTS TypeOK AdmissionHolds AnswersAgree EventsInOrder
PROPERTIES EveryCallReturns
CHECK_DEADLOCK FALSE
