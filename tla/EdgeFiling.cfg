\* One obligation, one request at a time, one call that fails.
SPECIFICATION Spec
CONSTANTS
  r1 = r1
  Level = "ATTEST"
  NeedsSigner = TRUE
  Requests = {r1}
  DueDates = {1, 3}
  MaxDay = 2
  MaxFaults = 1
  Soon = 1
INVARIANT FiledIsBacked
PROPERTIES RollbackRestores
